---- MODULE Spec2Model ----
(***************************************************************************)
(* The pipeline of genai-causal-inference:                                 *)
(*   01_sentiment_analysis.py, 03_identify_resolution.py,                  *)
(*   04_evaluate_understanding.py   (the three enrichment stages)          *)
(*   02_convert_to_numeric.py       (the numeric projection)               *)
(*   05_create_neptune_gremlin.py, 05_create_neptune_gremlin_bulk.py       *)
(*                                  (the two graph exporters)              *)
(*   06_upload_to_neptune_analytics.py  (the upload and the bulk load)     *)
(*   neptune_analytics_cdk/bedrock_agent/lambda/app.py                     *)
(*                                  (the agent's action-group handler)     *)
(*   neptune_analytics_cdk/bedrock_agent/lambda/bedrock_provider.py        *)
(*                                  (the custom-resource provider)         *)
(*                                                                         *)
(* A table (pandas DataFrame) is a function from the names of the columns  *)
(* it has to the sequence of that column's cells; every cell is a string.  *)
(* None and NaN are the two null cells, "1" and "0" the numeric cells.     *)
(***************************************************************************)
EXTENDS Integers, Sequences, FiniteSets, TLC

\* ------------------------------------------------------------------ bounds
\* The largest table (number of rows).
MaxRows == 7
\* At most MaxTextRows comments of a table are not blank.
MaxTextRows == 2
\* batch_size is drawn from 1..MaxBatchSize.
MaxBatchSize == 1
\* ncalls counts the classifier calls of a run up to MaxCalls (MaxCalls
\* stands for "MaxCalls or more").
MaxCalls == 3
\* A classifier response is at most MaxResponseLen morphemes long.
MaxResponseLen == 2
\* convert_to_numeric is applied to tables of up to MaxNumericRows rows.
MaxNumericRows == 1
\* load_ticket_data reads tables of up to MaxLoadRows rows.
MaxLoadRows == 2
\* The exporters are given tables of up to MaxExportRows rows.
MaxExportRows == 2
\* The random source of uuid4 is in one of MaxSeeds states when a run starts.
MaxSeeds == 2
\* direct_runs and bulk_runs count up to MaxRuns (MaxRuns: or more).
MaxRuns == 2
\* The data directory of the upload holds at most MaxFiles files.
MaxFiles == 3
\* The stages' guards are run on tables of up to MaxGuardRows rows.
MaxGuardRows == 2
\* The predecessor's table has up to MaxRerunRows rows when it is replaced.
MaxRerunRows == 2
\* display_statistics is given tables of up to MaxStatsRows rows.
MaxStatsRows == 2

\* ------------------------------------------------------- program constants
\* max_retries=3, the default of process_*_batch; __main__ does not pass it.
max_retries == 3
\* time.sleep(2) between two attempts.
RetryDelay == 2
\* "Save intermediate results every 5 batches".
SaveEvery == 5

\* --------------------------------------------------------------- cells
None == "None"
NaN == "NaN"
\* pd.isna / Series.isna
isna(v) == v \in {None, NaN}

Min(a, b) == IF a < b THEN a ELSE b

\* ------------------------------------------------------------- the stages
Stages == {"sentiment", "resolution", "understanding"}

\* comment_column='comment_history_table_string'
TextCol == "comment_history_table_string"

\* The label column a stage fills.
LabelCol(s) ==
  CASE s = "sentiment" -> "sentiment"
    [] s = "resolution" -> "resolution_status"
    [] s = "understanding" -> "understanding_status"

\* The derived numeric column of the resolution and understanding stages.
NumericCol(s) ==
  CASE s = "resolution" -> "resolution_numeric"
    [] s = "understanding" -> "understanding_numeric"
    [] OTHER -> "no_numeric_column"

HasNumericCol(s) == s \in {"resolution", "understanding"}

PosLabel(s) ==
  CASE s = "sentiment" -> "positive"
    [] s = "resolution" -> "resolved"
    [] s = "understanding" -> "understood"

NegLabel(s) ==
  CASE s = "sentiment" -> "negative"
    [] s = "resolution" -> "unresolved"
    [] s = "understanding" -> "misunderstood"

\* The label given to a row whose comment is empty or missing.
BlankLabel(s) == IF s = "sentiment" THEN "neutral" ELSE "unknown"

\* The label stored when the retry loop ends without a result.
FailLabel == "unknown"

\* ----------------------------------------------------- classifier responses
(* A response text is a sequence of morphemes, read as their concatenation:
   <<"un", "resolved">> is the text "unresolved", so that the keyword
   'resolved' is a substring of the keyword 'unresolved' as in the code.    *)
Morphemes(s) ==
  CASE s = "sentiment" -> {"positive", "negative", "Positive", "ok"}
    [] s = "resolution" -> {"resolved", "un", "Resolved", "ok"}
    [] s = "understanding" -> {"understood", "mis", "Understood", "ok"}

Responses(s) == UNION {[1..k -> Morphemes(s)] : k \in 0..MaxResponseLen}

\* str.lower(), morpheme by morpheme
LowerMorpheme(m) ==
  CASE m = "Positive" -> "positive"
    [] m = "Resolved" -> "resolved"
    [] m = "Understood" -> "understood"
    [] OTHER -> m

Lower(text) == [k \in 1..Len(text) |-> LowerMorpheme(text[k])]

\* Python's `kw in text` (substring test)
Contains(kw, text) ==
  \E k \in 1..(Len(text) - Len(kw) + 1) : SubSeq(text, k, k + Len(kw) - 1) = kw

\* The result of bedrock_client.converse: a response text, or an exception.
ConverseError == [ok |-> FALSE, text |-> <<>>]
Outcomes(s) == {ConverseError} \cup {[ok |-> TRUE, text |-> t] : t \in Responses(s)}

\* analyze_sentiment_with_nova: the text is not lower-cased, 'positive' is
\* tested first, and every exception of the call is caught and gives None.
analyze_sentiment_with_nova(o) ==
  IF ~o.ok THEN None
  ELSE IF Contains(<<"positive">>, o.text) THEN "positive"
  ELSE IF Contains(<<"negative">>, o.text) THEN "negative"
  ELSE "negative"

\* analyze_resolution_with_nova
analyze_resolution_with_nova(o) ==
  IF ~o.ok THEN None
  ELSE LET result == Lower(o.text)
       IN IF Contains(<<"resolved">>, result) /\ ~Contains(<<"un", "resolved">>, result)
          THEN "resolved"
          ELSE "unresolved"

\* evaluate_understanding_with_nova
evaluate_understanding_with_nova(o) ==
  IF ~o.ok THEN None
  ELSE LET result == Lower(o.text)
       IN IF Contains(<<"understood">>, result) /\ ~Contains(<<"mis", "understood">>, result)
          THEN "understood"
          ELSE "misunderstood"

\* Mutant of Analyze: the first word of the response is stored as it came.
Analyze_raw(s, o) ==
  IF ~o.ok THEN None ELSE IF o.text = <<>> THEN "" ELSE o.text[1]

\* The stage's classifier function applied to the outcome of the call.
Analyze(s, o) ==
  CASE s = "sentiment" -> analyze_sentiment_with_nova(o)
    [] s = "resolution" -> analyze_resolution_with_nova(o)
    [] s = "understanding" -> evaluate_understanding_with_nova(o)

\* Whether the classifier function raises into the retry loop. Its body is
\* one try/except Exception that returns None, so it never does: the
\* `except` branch of the retry loop is never entered.
AnalyzeRaises(s, o) == FALSE

\* ------------------------------------------------------------------ tables
NRows(t) == IF DOMAIN t = {} THEN 0 ELSE Len(t[CHOOSE c \in DOMAIN t : TRUE])

\* result_df[c] = vals (adds the column, or replaces it)
SetCol(t, c, vals) == (c :> vals) @@ t

\* result_df.loc[idx, c] = v
SetCell(t, c, idx, v) == [t EXCEPT ![c][idx] = v]

\* Series.map(dict): a cell that is no key of the dict maps to NaN, and so
\* does a key whose value is None.
MapCell(s, v) ==
  IF v = PosLabel(s) THEN "1"
  ELSE IF v = NegLabel(s) THEN "0"
  ELSE NaN

\* Mutant of StageNumeric: without the fillna(0) of the understanding stage.
StageNumeric_nofill(s, v) == MapCell(s, v)

\* The numeric projection at the end of the resolution and understanding
\* stages; the understanding stage then does fillna(0).
StageNumeric(s, v) ==
  IF s = "understanding" /\ isna(MapCell(s, v)) THEN "0" ELSE MapCell(s, v)

\* Mutant of WithLabelCol: the label column is reset on every run.
WithLabelCol_reset(s, t) == SetCol(t, LabelCol(s), [r \in 1..NRows(t) |-> None])

\* result_df = df.copy(); add the label column if it doesn't exist
WithLabelCol(s, t) ==
  IF LabelCol(s) \in DOMAIN t THEN t
  ELSE SetCol(t, LabelCol(s), [r \in 1..NRows(t) |-> None])

\* Mutant of comments_to_process: every row is selected.
comments_to_process_all(s, t) == [r \in 1..NRows(t) |-> r]

\* result_df[result_df[label].isna()].index
comments_to_process(s, t) ==
  SelectSeq([r \in 1..NRows(t) |-> r], LAMBDA r : isna(t[LabelCol(s)][r]))

\* Mutant of IsBlank: a missing comment is not taken for an empty one.
IsBlank_emptyonly(comment) == comment = ""

\* pd.isna(comment) or comment == ""
IsBlank(comment) == isna(comment) \/ comment = ""

\* A checkpoint file: absent, or the pickled table.
NoFile == [exists |-> FALSE, df |-> <<>>]
File(t) == [exists |-> TRUE, df |-> t]

\* ------------------------------------------- 02_convert_to_numeric.py
\* Mutant of SentimentNumeric: everything but 'positive' maps to 0.
SentimentNumeric_binary(v) == IF v = "positive" THEN "1" ELSE "0"

\* result_df['sentiment'].map({'positive': 1, 'negative': 0, 'neutral': None,
\* 'unknown': None})
SentimentNumeric(v) ==
  IF v = "positive" THEN "1"
  ELSE IF v = "negative" THEN "0"
  ELSE NaN

\* result_df['rating'].map({'good': 1, 'offered': 0})
RatingNumeric(v) ==
  IF v = "good" THEN "1"
  ELSE IF v = "offered" THEN "0"
  ELSE NaN

\* result_df['cloud_support_case_used'].astype(int), cell by cell; a null
\* cell makes astype raise (AstypeRaises).
SupportCaseNumeric(v) == IF v = "True" THEN "1" ELSE "0"

AstypeRaises(t) ==
  /\ "cloud_support_case_used" \in DOMAIN t
  /\ \E r \in 1..NRows(t) : isna(t["cloud_support_case_used"][r])

\* Mutant of AwsPlatformNumeric: a dict map, which leaves a missing platform
\* null.
AwsPlatformNumeric_map(v) ==
  IF v = "amazon_web_services" THEN "1" ELSE IF isna(v) THEN NaN ELSE "0"

\* lambda x: 1 if x == 'amazon_web_services' else 0
AwsPlatformNumeric(v) == IF v = "amazon_web_services" THEN "1" ELSE "0"

\* The numeric cell of a cell of source column old.
NumericCell(old, v) ==
  CASE old = "sentiment" -> SentimentNumeric(v)
    [] old = "rating" -> RatingNumeric(v)
    [] old = "cloud_support_case_used" -> SupportCaseNumeric(v)
    [] old = "custom_platform" -> AwsPlatformNumeric(v)

\* if old in result_df.columns: result_df[new] = the numeric cells of old
AddNumeric(t, old, new) ==
  IF old \in DOMAIN t
    THEN SetCol(t, new, [r \in 1..NRows(t) |-> NumericCell(old, t[old][r])])
    ELSE t

\* The columns convert_to_numeric adds to its copy of df.
NumericColumns(t) ==
  LET t1 == AddNumeric(t, "sentiment", "sentiment_numeric")
      t2 == AddNumeric(t1, "rating", "rating_numeric")
      t3 == AddNumeric(t2, "cloud_support_case_used", "support_case_numeric")
  IN AddNumeric(t3, "custom_platform", "aws_platform_numeric")

\* Mutant of convert_to_numeric: result_df = df, without the copy, so the
\* new columns are written into the argument.
convert_to_numeric_inplace(t) ==
  [raised |-> AstypeRaises(t), arg |-> NumericColumns(t), result |-> NumericColumns(t)]

\* convert_to_numeric(df): whether it raises, what it leaves in its argument
\* (it works on df.copy()), and the table it returns.
convert_to_numeric(t) ==
  [raised |-> AstypeRaises(t), arg |-> t, result |-> NumericColumns(t)]

\* numeric_cols, in the order of the list
numeric_cols ==
  <<"sentiment_numeric", "rating_numeric", "support_case_numeric",
    "aws_platform_numeric">>

\* [col for col in numeric_cols if col in df.columns]
available_cols(t) == SelectSeq(numeric_cols, LAMBDA c : c \in DOMAIN t)

\* A quotient of two naturals in lowest terms; den = 0 stands for NaN.
Ratio(num, den) ==
  IF den = 0 THEN [num |-> 0, den |-> 0]
  ELSE IF num = 0 THEN [num |-> 0, den |-> 1]
  ELSE LET g == CHOOSE d \in 1..den :
                  /\ num % d = 0 /\ den % d = 0
                  /\ \A e \in (d + 1)..den : num % e # 0 \/ den % e # 0
       IN [num |-> num \div g, den |-> den \div g]

\* Series.value_counts(): the count of every value that occurs; nulls are
\* dropped.
value_counts(cells) ==
  [v \in {cells[r] : r \in 1..Len(cells)} \ {None, NaN} |->
     Cardinality({r \in 1..Len(cells) : cells[r] = v})]

\* Series.value_counts(normalize=True) * 100
value_pct(cells) ==
  LET counts == value_counts(cells)
      total == Cardinality({r \in 1..Len(cells) : ~isna(cells[r])})
  IN [v \in DOMAIN counts |-> Ratio(100 * counts[v], total)]

\* The two sections printed for a column that is there.
distribution(t, c) ==
  <<[kind |-> "distribution", col |-> c, values |-> value_counts(t[c])],
    [kind |-> "percentage", col |-> c, values |-> value_pct(t[c])]>>

\* Mutant of corr: an undefined correlation is given as 0.
corr_zero(a, b) ==
  LET valid == {r \in 1..Len(a) : ~isna(a[r]) /\ ~isna(b[r])}
      n == Cardinality(valid)
      sx == Cardinality({r \in valid : a[r] = "1"})
      sy == Cardinality({r \in valid : b[r] = "1"})
      sxy == Cardinality({r \in valid : a[r] = "1" /\ b[r] = "1"})
      cov == n * sxy - sx * sy
      varx == n * sx - sx * sx
      vary == n * sy - sy * sy
  IN IF n = 0 \/ varx * vary = 0 THEN [sign |-> 0, square |-> Ratio(0, 1)]
     ELSE [sign |-> IF cov > 0 THEN 1 ELSE IF cov < 0 THEN -1 ELSE 0,
           square |-> Ratio(cov * cov, varx * vary)]

\* Series.corr (Pearson) of two columns of 1, 0 and null cells: computed
\* over the rows where both cells are there; NaN ("nan" when printed with
\* :.4f) when no such row is left or a column is constant on them. The
\* value is given by its sign and its square.
corr(a, b) ==
  LET valid == {r \in 1..Len(a) : ~isna(a[r]) /\ ~isna(b[r])}
      n == Cardinality(valid)
      sx == Cardinality({r \in valid : a[r] = "1"})
      sy == Cardinality({r \in valid : b[r] = "1"})
      sxy == Cardinality({r \in valid : a[r] = "1" /\ b[r] = "1"})
      cov == n * sxy - sx * sy
      varx == n * sx - sx * sx
      vary == n * sy - sy * sy
  IN IF n = 0 \/ varx * vary = 0 THEN [sign |-> 0, square |-> Ratio(0, 0)]
     ELSE [sign |-> IF cov > 0 THEN 1 ELSE IF cov < 0 THEN -1 ELSE 0,
           square |-> Ratio(cov * cov, varx * vary)]

\* for i in range(len(available_cols)): for j in range(i+1, len(...)):
\* the index pairs in the order of the two loops
index_pairs(n) ==
  SelectSeq([p \in 1..(n * n) |-> <<((p - 1) \div n) + 1, ((p - 1) % n) + 1>>],
            LAMBDA q : q[1] < q[2])

\* "Correlations:" and the lines that follow
correlations(t) ==
  LET cols == available_cols(t)
      pairs == index_pairs(Len(cols))
  IN [k \in 1..Len(pairs) |->
        [kind |-> "correlation", col1 |-> cols[pairs[k][1]],
         col2 |-> cols[pairs[k][2]],
         value |-> corr(t[cols[pairs[k][1]]], t[cols[pairs[k][2]]])]]

\* What display_statistics(df) prints, section by section.
statistics(t) ==
  LET section(c) == IF c \in DOMAIN t THEN distribution(t, c) ELSE <<>>
  IN section(numeric_cols[1]) \o section(numeric_cols[2])
       \o section(numeric_cols[3]) \o section(numeric_cols[4])
       \o correlations(t)

\* ------------------------------------- 05_create_neptune_gremlin.py
\* The row of table t at position r, as a record of its cells.
Row(t, r) == [c \in DOMAIN t |-> t[c][r]]

\* df.index.astype(str): the index of the loaded table is 0, 1, ..., n-1.
IndexStr(r) == ToString(r - 1)

\* prefix + value: the concatenation is written as the pair of its parts; a
\* null value stays null.
Concat(prefix, v) == IF isna(v) THEN <<NaN>> ELSE <<prefix, v>>

\* ['~id', '~label'] + the other columns
Vertex(id, lbl, rec) == ("~id" :> id) @@ ("~label" :> lbl) @@ rec

Edge(id, from, to, lbl) ==
  ("~id" :> id) @@ ("~from" :> from) @@ ("~to" :> to) @@ ("~label" :> lbl)

\* cloud_support_case_used.astype(int), when the column is there
WithIntFlag(t) ==
  IF "cloud_support_case_used" \in DOMAIN t
    THEN SetCol(t, "cloud_support_case_used",
                [r \in 1..NRows(t) |-> SupportCaseNumeric(t["cloud_support_case_used"][r])])
    ELSE t

\* custom_product.fillna("unknown"), when the column is there
WithProduct(t) ==
  IF "custom_product" \in DOMAIN t
    THEN SetCol(t, "custom_product",
                [r \in 1..NRows(t) |->
                   IF isna(t["custom_product"][r]) THEN "unknown" ELSE t["custom_product"][r]])
    ELSE t

\* Mutant of drop_duplicates: a row is dropped when it agrees with an
\* earlier row in one column.
drop_duplicates_any(rows) ==
  LET kept == SelectSeq([r \in 1..Len(rows) |-> r],
                        LAMBDA r : \A q \in 1..(r - 1) :
                                     \A c \in DOMAIN rows[r] : rows[q][c] # rows[r][c])
  IN [k \in 1..Len(kept) |-> rows[kept[k]]]

\* DataFrame.drop_duplicates(): the first occurrence of every row, in order.
drop_duplicates(rows) ==
  LET kept == SelectSeq([r \in 1..Len(rows) |-> r],
                        LAMBDA r : \A q \in 1..(r - 1) : rows[q] # rows[r])
  IN [k \in 1..Len(kept) |-> rows[kept[k]]]

\* df[[status, numeric]]
Project(t, cols) == [r \in 1..NRows(t) |-> [c \in cols |-> t[c][r]]]

\* rating_vertices.csv and ticket_vertices.csv: one record per row
RowVertices(t, prefix, lbl) ==
  LET v == WithProduct(WithIntFlag(t))
  IN [r \in 1..NRows(t) |-> Vertex(<<prefix, IndexStr(r)>>, lbl, Row(v, r))]

\* resolution_vertices.csv and understanding_vertices.csv
StatusVertices(t, scol, ncol, prefix, lbl) ==
  LET pairs == drop_duplicates(Project(t, {scol, ncol}))
  IN [k \in 1..Len(pairs) |-> Vertex(Concat(prefix, pairs[k][scol]), lbl, pairs[k])]

\* resolution_rating_edges.csv
resolution_rating_edges(t) ==
  [r \in 1..NRows(t) |->
     Edge(<<"edge_res_rating_", IndexStr(r)>>,
          Concat("resolution_", t["resolution_status"][r]),
          <<"rating_", IndexStr(r)>>, "AFFECTS")
       @@ ("weight" :> t["resolution_effect"][r])]

\* understanding_rating_edges.csv
understanding_rating_edges(t) ==
  [r \in 1..NRows(t) |->
     Edge(<<"edge_und_rating_", IndexStr(r)>>,
          Concat("understanding_", t["understanding_status"][r]),
          <<"rating_", IndexStr(r)>>, "INFLUENCES")]

\* ticket_rating_edges.csv
ticket_rating_edges(t) ==
  [r \in 1..NRows(t) |->
     Edge(<<"edge_ticket_rating_", IndexStr(r)>>,
          <<"ticket_", IndexStr(r)>>,
          <<"rating_", IndexStr(r)>>, "HAS_RATING")]

\* The four vertex files, written before the first edge file.
VertexFiles(t) ==
  ("rating_vertices.csv" :> RowVertices(t, "rating_", "rating"))
    @@ ("resolution_vertices.csv" :>
          StatusVertices(t, "resolution_status", "resolution_numeric",
                         "resolution_", "resolution"))
    @@ ("understanding_vertices.csv" :>
          StatusVertices(t, "understanding_status", "understanding_numeric",
                         "understanding_", "understanding"))
    @@ ("ticket_vertices.csv" :> RowVertices(t, "ticket_", "ticket"))

EdgeFiles(t) ==
  ("resolution_rating_edges.csv" :> resolution_rating_edges(t))
    @@ ("understanding_rating_edges.csv" :> understanding_rating_edges(t))
    @@ ("ticket_rating_edges.csv" :> ticket_rating_edges(t))

\* -------------------------------- 05_create_neptune_gremlin_bulk.py
\* Mutant of Get: the default also stands in for a null cell.
Get_filled(t, col, r, default) ==
  IF col \in DOMAIN t /\ ~isna(t[col][r]) THEN t[col][r] ELSE default

\* row.get(col, default)
Get(t, col, r, default) == IF col \in DOMAIN t THEN t[col][r] ELSE default

\* The numeric properties of a ticket vertex and the columns they come from.
PropKeys ==
  {"sentiment", "rating", "resolution", "understanding", "support_case", "aws_platform"}

NumericColumnOf(k) ==
  CASE k = "sentiment" -> "sentiment_numeric"
    [] k = "rating" -> "rating_numeric"
    [] k = "resolution" -> "resolution_numeric"
    [] k = "understanding" -> "understanding_numeric"
    [] k = "support_case" -> "support_case_numeric"
    [] k = "aws_platform" -> "aws_platform_numeric"

\* The columns that are not copied as additional properties.
ExcludedColumns ==
  {"ticket_id", "resolution_effect"} \cup {NumericColumnOf(k) : k \in PropKeys}

\* int(row.get(col, 0)) raises for a null cell (NaN: ValueError).
IntRaises(t) ==
  \E r \in 1..NRows(t), k \in PropKeys : isna(Get(t, NumericColumnOf(k), r, "0"))

\* str(row.get('ticket_id', f"ticket_{idx}")), as the sequence of its parts
TicketId(t, r) ==
  IF "ticket_id" \in DOMAIN t THEN <<t["ticket_id"][r]>> ELSE <<"ticket_", IndexStr(r)>>

ticket_vertex(t, r) ==
  LET extra == {c \in DOMAIN t \ ExcludedColumns : ~isna(t[c][r])}
  IN [c \in extra |-> t[c][r]]
       @@ Vertex(<<"ticket:">> \o TicketId(t, r), "ticket",
                 ("ticket_id" :> TicketId(t, r))
                   @@ [k \in PropKeys |-> Get(t, NumericColumnOf(k), r, "0")])

resolution_vertex ==
  Vertex(<<"factor:resolution">>, "factor",
         ("name" :> "Resolution Status")
           @@ ("description" :> "Whether the customer issue was resolved or not"))

rating_vertex ==
  Vertex(<<"factor:rating">>, "factor",
         ("name" :> "Customer Rating")
           @@ ("description" :> "Rating provided by the customer"))

\* create_neptune_bulk_vertices(df)
create_neptune_bulk_vertices(t) ==
  [r \in 1..NRows(t) |-> ticket_vertex(t, r)] \o <<resolution_vertex, rating_vertex>>

\* f"e{uuid.uuid4()}": the k-th random identifier of a run, whose random
\* source is in state seed.
Uuid(seed, k) == <<"e", ToString(seed), ToString(k)>>

\* The "~id" of the has_factor edge of row r to a factor.
EdgeId(t, r, factor, seed) ==
  Uuid(seed, 2 * (r - 1) + (IF factor = "resolution" THEN 1 ELSE 2))

\* "~to": "factor:resolution", "~to": "factor:rating"
FactorId(factor) ==
  IF factor = "resolution" THEN <<"factor:resolution">> ELSE <<"factor:rating">>

\* resolution_edge and rating_edge of row r
has_factor(t, r, factor, seed) ==
  Edge(EdgeId(t, r, factor, seed), <<"ticket:">> \o TicketId(t, r),
       FactorId(factor), "has_factor")
    @@ ("value" :> Get(t, NumericColumnOf(factor), r, "0"))

\* A float, as a fraction in lowest terms; den = 0 is NaN.
Fraction(num, den) ==
  IF den = 0 THEN [num |-> 0, den |-> 0]
  ELSE LET g == CHOOSE d \in 1..den :
                  /\ num % d = 0 /\ den % d = 0
                  /\ \A e \in (d + 1)..den : num % e # 0 \/ den % e # 0
       IN [num |-> num \div g, den |-> den \div g]

\* The effect values 0, 0.5 and 1, counted in halves.
Halves(c) == CASE c = "0" -> 0 [] c = "0.5" -> 1 [] c = "1" -> 2

\* Series.mean(): nulls are skipped, and nothing left gives NaN.
mean(cells) ==
  LET vals == SelectSeq(cells, LAMBDA c : ~isna(c))
      sum == Cardinality({r \in 1..Len(vals) : Halves(vals[r]) = 1})
               + 2 * Cardinality({r \in 1..Len(vals) : Halves(vals[r]) = 2})
  IN Fraction(sum, 2 * Len(vals))

\* df['resolution_effect'].mean() if not df['resolution_effect'].empty else 0
causal_effect(t) ==
  IF NRows(t) = 0 THEN Fraction(0, 1) ELSE mean(t["resolution_effect"])

causal_edge(t) ==
  Edge(<<"e_causal_resolution_rating">>, <<"factor:resolution">>,
       <<"factor:rating">>, "causes")
    @@ ("effect_strength" :> causal_effect(t))
    @@ ("description" :> "Causal effect of resolution status on customer rating")

\* create_neptune_bulk_edges(df)
create_neptune_bulk_edges(t, seed) ==
  [k \in 1..(2 * NRows(t)) |->
     has_factor(t, (k + 1) \div 2, IF k % 2 = 1 THEN "resolution" ELSE "rating", seed)]
    \o (IF "resolution_effect" \in DOMAIN t THEN <<causal_edge(t)>> ELSE <<>>)

\* __main__: df['resolution_effect'] = 0.5 when the column is not there
WithPlaceholder(t) ==
  IF "resolution_effect" \in DOMAIN t THEN t
  ELSE SetCol(t, "resolution_effect", [r \in 1..NRows(t) |-> "0.5"])

\* --------------------------------- 06_upload_to_neptune_analytics.py
\* A file name is the pair of its stem and its extension.
\* Mutant of IsCsv: every file of the directory is taken.
IsCsv_any(name) == TRUE

\* f.endswith('.csv')
IsCsv(name) == name[2] = ".csv"

\* --s3-bucket
S3Bucket == "s3-bucket"

\* --data-dir (default)
DataDirName == "neptune_export"

\* os.path.join(args.data_dir, csv_file)
FilePath(name) == <<DataDirName, "/">> \o name

\* Mutant of S3Key: the file is uploaded under its bare name.
S3Key_bare(prefix, name) == name

\* f"{args.s3_prefix}/{csv_file}"
S3Key(prefix, name) == <<prefix, "/">> \o name

\* f"s3://{s3_bucket}/{s3_key}"
S3Uri(bucket, key) == <<"s3://", bucket, "/">> \o key

\* f"s3://{args.s3_bucket}/{args.s3_prefix}/"
S3PrefixUri(bucket, prefix) == <<"s3://", bucket, "/", prefix, "/">>

\* CALL neptune.load({format: "csv", source: "<s3_uri>", region: "us-west-2"})
\* sent with client.execute_query(..., language='OPEN_CYPHER')
LoadQuery(s3_uri) ==
  [op |-> "execute_query", language |-> "OPEN_CYPHER", call |-> "neptune.load",
   format |-> "csv", source |-> s3_uri, region |-> "us-west-2"]

\* The orders in which os.listdir may give the names of a set.
Listings(names) ==
  {q \in [1..Cardinality(names) -> names] :
     \A a, b \in 1..Cardinality(names) : a # b => q[a] # q[b]}

\* ------------------------------------- bedrock_agent/lambda/app.py
\* An event is a function from the keys it has to their values.
\* event.get(key, default)
EventGet(e, key, default) == IF key \in DOMAIN e THEN e[key] ELSE default

\* The queries of the five fixed API paths, by the name of their function.
FixedPaths ==
  {"/getRatingStatistics", "/getResolutionImpact", "/getUnderstandingImpact",
   "/getCombinedFactors", "/getPlatformComparison"}

KnownPaths == FixedPaths \cup {"/getAnomalies", "/runCustomQuery"}

FixedQuery(api_path) ==
  CASE api_path = "/getRatingStatistics" -> "MATCH (r:rating) RETURN ..."
    [] api_path = "/getResolutionImpact" -> "MATCH (res:resolution)-[r:AFFECTS]->(rating:rating) RETURN ..."
    [] api_path = "/getUnderstandingImpact" -> "MATCH (u:understanding)-[r:INFLUENCES]->(rating:rating) RETURN ..."
    [] api_path = "/getCombinedFactors" -> "MATCH (res:resolution)-[:AFFECTS]->(rating:rating), (u:understanding)-[:INFLUENCES]->(rating) RETURN ..."
    [] api_path = "/getPlatformComparison" -> "MATCH (t:ticket)-[:HAS_RATING]->(rating:rating) RETURN ..."

\* execute_query(query): the payload of the response, or {"error": str(e)}
\* when neptune_client.execute_query or the parsing of the payload raised.
execute_query(query, outcome) ==
  IF outcome = "payload" THEN [payload |-> query] ELSE [error |-> "query failed"]

\* What a function of the handler did: whether it raised, the queries it
\* sent to the graph, and the body it returned.
Raised(name) == [raised |-> TRUE, error |-> name, queries |-> <<>>, body |-> <<>>]
Returned(queries, body) ==
  [raised |-> FALSE, error |-> "", queries |-> queries, body |-> body]

Queried(query, outcome) == Returned(<<query>>, execute_query(query, outcome))

\* The value of `parameters`: a list of {name, type, value} records (what
\* the agent runtime sends, and the default [] of the handler), or a mapping.
ListOf(items) == [kind |-> "list", items |-> items]
DictOf(items) == [kind |-> "dict", items |-> items]

\* get_anomalies(parameters): parameters.get raises AttributeError when
\* parameters is a list.
get_anomalies(parameters, outcome) ==
  IF parameters.kind = "list" THEN Raised("AttributeError")
  ELSE LET anomaly_type ==
             EventGet(parameters.items, "anomaly_type", "sentiment_rating_mismatch")
       IN IF anomaly_type = "sentiment_rating_mismatch"
            THEN Queried("MATCH (t:ticket)-[:HAS_RATING]->(rating:rating) WHERE ... LIMIT 10",
                         outcome)
          ELSE IF anomaly_type = "extreme_effects"
            THEN Queried("MATCH (t:ticket) RETURN ... ORDER BY abs(t.resolution_effect) DESC LIMIT 10",
                         outcome)
          ELSE Returned(<<>>, [error |-> <<"Unknown anomaly type: ", anomaly_type>>])

\* run_custom_query(parameters)
run_custom_query(parameters, outcome) ==
  IF parameters.kind = "list" THEN Raised("AttributeError")
  ELSE LET query == EventGet(parameters.items, "query", None)
       IN IF query \in {None, ""}
            THEN Returned(<<>>, [error |-> "No query provided"])
            ELSE Queried(query, outcome)

\* The if/elif chain of handler over api_path.
Dispatch(event, outcome) ==
  LET api_path == event["apiPath"]
      parameters == EventGet(event, "parameters", ListOf(<<>>))
  IN IF api_path \in FixedPaths THEN Queried(FixedQuery(api_path), outcome)
     ELSE IF api_path = "/getAnomalies" THEN get_anomalies(parameters, outcome)
     ELSE IF api_path = "/runCustomQuery" THEN run_custom_query(parameters, outcome)
     ELSE Returned(<<>>, {<<event["actionGroup"], "::", api_path,
                            " is not a valid api, try another one.">>})

\* The response of the `except` branch.
error_response(event, error) ==
  [actionGroup |-> EventGet(event, "actionGroup", "unknown"),
   apiPath |-> EventGet(event, "apiPath", "unknown"),
   httpMethod |-> EventGet(event, "httpMethod", "unknown"),
   httpStatusCode |-> 500,
   body |-> <<"json.dumps", [error |-> <<"Lambda execution failed: ", error>>]>>]

\* handler(event, context): the queries it sent and the response it returned.
app_handler(event, outcome) ==
  IF ~({"actionGroup", "apiPath"} \subseteq DOMAIN event)
    THEN [queries |-> <<>>, response |-> error_response(event, "KeyError")]
  ELSE LET d == Dispatch(event, outcome)
       IN IF d.raised
            THEN [queries |-> d.queries, response |-> error_response(event, d.error)]
          ELSE IF "httpMethod" \notin DOMAIN event
            THEN [queries |-> d.queries, response |-> error_response(event, "KeyError")]
          ELSE [queries |-> d.queries,
                response |-> [actionGroup |-> event["actionGroup"],
                              apiPath |-> event["apiPath"],
                              httpMethod |-> event["httpMethod"],
                              httpStatusCode |-> 200,
                              body |-> <<"str", d.body>>]]

\* --------------------------------- bedrock_agent/lambda/bedrock_provider.py
\* idleSessionTTLInSeconds when the resource properties do not give one.
DefaultTTL == 1800

\* int(x) of a property value: the strings that stand for an integer. Any
\* other string makes int raise ValueError.
ParseInt == ("600" :> 600)

\* `if physical_id`: None and the empty string are false.
Truthy(x) == x \notin {None, ""}

\* A call to the bedrock-agent service: it raised, or it returned `response`.
ServiceCall(name, args, outcome) ==
  [name |-> name, args |-> args, raised |-> outcome.raises,
   response |-> IF outcome.raises THEN <<>> ELSE outcome.response]

\* What a call to the service can do. The response of a create call is a
\* mapping; the handler reads the new id from its top level, where the
\* response may or may not have it.
NewIds == {"id-1", "id-2"}
ServiceOutcomes ==
  {[raises |-> TRUE, response |-> <<>>], [raises |-> FALSE, response |-> <<>>]}
    \cup {[raises |-> FALSE, response |-> (k :> id)] :
            k \in {"agentId", "actionGroupId"}, id \in NewIds}

\* The try block left by an exception, and the try block run to its last
\* statement before the send.
StepRaised(calls, error, physical_id) ==
  [calls |-> calls, raised |-> TRUE, error |-> error, response_data |-> <<>>,
   physical_id |-> physical_id]
StepsDone(calls, response_data, physical_id) ==
  [calls |-> calls, raised |-> FALSE, error |-> "",
   response_data |-> response_data, physical_id |-> physical_id]

\* A create call and the two statements after it: physical_id and
\* response_data[data_key] are response[id_key], KeyError without that key.
Created(call, id_key, data_key, physical_id) ==
  IF call.raised THEN StepRaised(<<call>>, "ClientError", physical_id)
  ELSE IF id_key \notin DOMAIN call.response
    THEN StepRaised(<<call>>, "KeyError", physical_id)
  ELSE StepsDone(<<call>>, data_key :> call.response[id_key], call.response[id_key])

\* A delete call: nothing of its response is read.
Deleted(call, physical_id) ==
  IF call.raised THEN StepRaised(<<call>>, "ClientError", physical_id)
  ELSE StepsDone(<<call>>, <<>>, physical_id)

\* The statements of the try block before the send. The arguments of the
\* calls that are only passed through with .get are left out.
provider_steps(event, outcome) ==
  LET physical_id == EventGet(event, "PhysicalResourceId", None)
  IN IF ~({"RequestType", "ResourceProperties"} \subseteq DOMAIN event)
       THEN StepRaised(<<>>, "KeyError", physical_id)
     ELSE
       LET request_type == event["RequestType"]
           properties == event["ResourceProperties"]
           resource_type == EventGet(properties, "ResourceType", None)
           agent_id == EventGet(properties, "AgentId", None)
       IN CASE request_type = "Create" /\ resource_type = "Agent" ->
                 IF "IdleSessionTTLInSeconds" \notin DOMAIN properties
                   THEN Created(ServiceCall("create_agent",
                                  [idleSessionTTLInSeconds |-> DefaultTTL], outcome),
                                "agentId", "AgentId", physical_id)
                 ELSE IF properties["IdleSessionTTLInSeconds"] \notin DOMAIN ParseInt
                   THEN StepRaised(<<>>, "ValueError", physical_id)
                 ELSE Created(ServiceCall("create_agent",
                                [idleSessionTTLInSeconds |->
                                   ParseInt[properties["IdleSessionTTLInSeconds"]]],
                                outcome),
                              "agentId", "AgentId", physical_id)
            [] request_type = "Create" /\ resource_type = "ActionGroup" ->
                 Created(ServiceCall("create_agent_action_group",
                           [agentId |-> agent_id], outcome),
                         "actionGroupId", "ActionGroupId", physical_id)
            [] request_type = "Delete" /\ resource_type = "ActionGroup"
                 /\ Truthy(physical_id) ->
                 Deleted(ServiceCall("delete_agent_action_group",
                           [agentId |-> agent_id, actionGroupId |-> physical_id],
                           outcome),
                         physical_id)
            [] request_type = "Delete" /\ resource_type = "Agent"
                 /\ Truthy(physical_id) ->
                 Deleted(ServiceCall("delete_agent", [agentId |-> physical_id],
                           outcome),
                         physical_id)
            [] OTHER -> StepsDone(<<>>, <<>>, physical_id)

\* The status of the completion response: the send that ends the try block
\* or the send of the except branch.
SendStatus_success(raised) == "SUCCESS"
SendStatus(raised) == IF raised THEN "FAILED" ELSE "SUCCESS"

\* cfnresponse.send(event, context, status, data, physical_id).
cfn_send(status, data, physical_id) ==
  [Status |-> status, Data |-> data, PhysicalResourceId |-> physical_id]

\* handler(event, context) of the provider: the service calls it made and the
\* completion responses it sent. cfnresponse.send reports its own failure
\* and does not raise, so the except branch is entered only from the steps
\* before the send.
provider_handler(event, outcome) ==
  LET steps == provider_steps(event, outcome)
  IN [calls |-> steps.calls,
      sent |-> <<cfn_send(SendStatus(steps.raised),
                          IF steps.raised THEN ("Error" :> steps.error)
                          ELSE steps.response_data,
                          steps.physical_id)>>]

\* ------------------------------------------------------------------- state
VARIABLES
  stage,        \* which enrichment script this is
  batch_size,   \* its batch_size argument
  source,       \* the table its predecessor left for it
  classifier,   \* the external classifier: "any" behaviour, or a fixed stub
  pickle,       \* the stage's own checkpoint file (output_pickle)
  pc,           \* where the script is
  df,           \* process_*_batch's argument
  result_df,    \* its working copy
  todo,         \* comments_to_process
  i,            \* the batch loop's index
  j,            \* position in batch_indices
  retry_count,  \* the retry loop's counter
  label,        \* the retry loop's result (sentiment / resolution / understanding)
  attempts,     \* classifier calls made for the current row (max_retries + 1: more)
  tick,         \* parity of the classifier calls made for the current row
  slept,        \* seconds slept for the current row
  called,       \* rows for which the classifier was called in this run
  ncalls,       \* classifier calls of this run
  write_failed, \* a to_pickle of this run raised
  numeric_pc,     \* 02_convert_to_numeric.py: "idle", "done" or "raised"
  numeric_arg,    \* convert_to_numeric's argument df, as the call left it
  numeric_df,     \* the table convert_to_numeric returned
  numeric_pickle, \* numeric_results.pkl
  stats_df,       \* display_statistics: its argument df
  stats_pc,       \* display_statistics: "idle", "done" or "raised"
  stats_out,      \* what display_statistics printed
  input_exists,   \* the stage's input file is there and loads
  credentials,    \* the credentials of the classifier client are configured
  raw_pickle,     \* load_ticket_data: raw_ticket_data.pkl (output_pickle)
  csv_file,       \* load_ticket_data: ticket_sample.csv (file_path)
  load_pc,        \* load_ticket_data: "idle", "returned", "not_found", "parse_error"
  load_df,        \* the table load_ticket_data returned
  load_reads,     \* the files load_ticket_data read
  load_wrote,     \* load_ticket_data's to_pickle: "no" (not called), "saved", "failed"
  export_df,      \* causal_analysis.pkl, the enriched table
  direct_pc,      \* 05_create_neptune_gremlin.py: "idle", "done" or "raised"
  direct_dir,     \* the files of neptune_export/
  direct_prev,    \* neptune_export/ as it was before the latest run
  direct_runs,    \* runs of the direct exporter (MaxRuns: or more)
  bulk_pc,        \* 05_create_neptune_gremlin_bulk.py: "idle", "done" or "raised"
  bulk_dir,       \* neptune_vertices.csv and neptune_edges.csv
  bulk_prev,      \* the two files as they were before the latest run
  bulk_runs,      \* runs of the bulk exporter (MaxRuns: or more)
  bulk_warned,    \* the latest run printed the resolution_effect warning
  endpoint,       \* 06_upload_to_neptune_analytics.py: --endpoint
  s3_prefix,      \* --s3-prefix
  data_dir,       \* the names of the files in --data-dir
  upload_pc,      \* "idle", "uploading", "load", "done" or "raised"
  csv_files,      \* main's list of the CSV files
  uploaded,       \* the upload_file calls that succeeded in this run
  graph_calls,    \* the requests sent to the graph service in this run
  status,         \* what load_data_to_neptune_analytics returned ("none": not called)
  agent_event,    \* app.py: the event the handler is invoked with
  agent_pc,       \* "idle", "returned" or "raised"
  agent_response, \* event['response'] of what the handler returned
  agent_queries,  \* the queries sent to the graph in this invocation
  cfn_event,      \* bedrock_provider.py: the custom-resource event
  cfn_pc,         \* "idle", "returned" or "raised"
  cfn_calls,      \* the calls made to the bedrock-agent service
  cfn_sent        \* the responses sent with cfnresponse.send

stagevars == <<pickle, pc, df, result_df, todo, i, j, retry_count, label,
               attempts, tick, slept, called, ncalls, write_failed>>
numericvars == <<numeric_pc, numeric_arg, numeric_df, numeric_pickle>>
statsvars == <<stats_df, stats_pc, stats_out>>
agentvars == <<agent_event, agent_pc, agent_response, agent_queries>>
providervars == <<cfn_event, cfn_pc, cfn_calls, cfn_sent>>
cdkvars == <<agentvars, providervars>>
guardvars == <<input_exists, credentials>>
loadvars == <<raw_pickle, csv_file, load_pc, load_df, load_reads, load_wrote>>

directvars == <<direct_pc, direct_dir, direct_prev, direct_runs>>
bulkvars == <<bulk_pc, bulk_dir, bulk_prev, bulk_runs, bulk_warned>>
exportvars == <<export_df, directvars, bulkvars>>
uploadargs == <<endpoint, s3_prefix, data_dir>>
uploadvars == <<uploadargs, upload_pc, csv_files, uploaded, graph_calls, status>>

vars == <<stage, batch_size, source, classifier, stagevars, numericvars, statsvars, cdkvars,
          guardvars, loadvars, exportvars, uploadvars>>

config == <<stage, batch_size, source, classifier, numericvars, statsvars, cdkvars, guardvars,
            loadvars, exportvars, uploadvars>>
rowvars == <<retry_count, label, attempts, tick, slept>>

\* The cells of the text column: a blank cell (missing, or the empty string)
\* or some text. The blank cells of one table are all of one kind.
Blanks == {None, ""}
Comments(blank) == {blank, "text"}

\* The text columns of n rows drawn for the stage runs.
SourceComments(n, blank) ==
  {c \in [1..n -> Comments(blank)] :
     Cardinality({r \in 1..n : c[r] = "text"}) <= MaxTextRows}

AnyClassifier == [kind |-> "any", answers |-> <<>>]

\* The outcomes the classifier may give for row r; without credentials the
\* request cannot be signed and converse raises.
ClassifierOutcomes(r) ==
  IF ~credentials THEN {ConverseError}
  ELSE IF classifier.kind = "any" THEN Outcomes(stage)
  ELSE {[ok |-> TRUE, text |-> classifier.answers[r]]}

\* What one call of the stage's classifier function may do for row r: raise
\* into the retry loop, or return a value.
CallResults(r) ==
  {[raised |-> AnalyzeRaises(stage, o), value |-> Analyze(stage, o)] :
     o \in ClassifierOutcomes(r)}

total_to_process == Len(todo)
idx == todo[i + j + 1]
batch_len == Min(batch_size, total_to_process - i)

\* No script has run yet.
NotStarted ==
  /\ pc = "idle"
  /\ df = source
  /\ result_df = source
  /\ todo = <<>>
  /\ i = 0 /\ j = 0
  /\ retry_count = 0 /\ label = None
  /\ attempts = 0 /\ tick = 0 /\ slept = 0
  /\ called = {} /\ ncalls = 0
  /\ write_failed = FALSE
  /\ numeric_pc = "idle"
  /\ numeric_arg = <<>>
  /\ numeric_df = <<>>
  /\ numeric_pickle = NoFile

\* The files of load_ticket_data: absent, unreadable, or holding a table.
NoRawFile == [exists |-> FALSE, ok |-> FALSE, df |-> <<>>]
BadRawFile == [exists |-> TRUE, ok |-> FALSE, df |-> <<>>]
RawFile(t) == [exists |-> TRUE, ok |-> TRUE, df |-> t]

\* load_ticket_data has not been called.
LoadIdle ==
  /\ load_pc = "idle"
  /\ load_df = <<>>
  /\ load_reads = {}
  /\ load_wrote = "no"

LoadUnused ==
  /\ raw_pickle = NoRawFile
  /\ csv_file = NoRawFile
  /\ LoadIdle

\* Neither exporter has run.
ExportIdle ==
  /\ direct_pc = "idle" /\ direct_dir = <<>> /\ direct_prev = <<>>
  /\ direct_runs = 0
  /\ bulk_pc = "idle" /\ bulk_dir = <<>> /\ bulk_prev = <<>>
  /\ bulk_runs = 0 /\ bulk_warned = FALSE

ExportUnused ==
  /\ export_df = <<>>
  /\ ExportIdle

\* The upload script has not run.
UploadIdle ==
  /\ upload_pc = "idle"
  /\ csv_files = <<>>
  /\ uploaded = <<>>
  /\ graph_calls = <<>>
  /\ status = "none"

UploadUnused ==
  /\ endpoint = ""
  /\ s3_prefix = "neptune-analytics-data"
  /\ data_dir = {}
  /\ UploadIdle

\* display_statistics has not been called.
StatsIdle ==
  /\ stats_pc = "idle"
  /\ stats_out = <<>>

StatsUnused ==
  /\ stats_df = <<>>
  /\ StatsIdle

\* The agent's handler has not been invoked.
AgentIdle ==
  /\ agent_pc = "idle"
  /\ agent_response = <<>>
  /\ agent_queries = <<>>

\* The provider has not been invoked.
ProviderIdle ==
  /\ cfn_pc = "idle"
  /\ cfn_calls = <<>>
  /\ cfn_sent = <<>>

CdkUnused ==
  /\ agent_event = <<>>
  /\ AgentIdle
  /\ cfn_event = <<>>
  /\ ProviderIdle

\* The stage's input file is there and the client's credentials are set.
EnvironmentOk == input_exists = TRUE /\ credentials = TRUE

Init ==
  /\ stage \in Stages
  /\ batch_size \in 1..MaxBatchSize
  /\ \E n \in 0..MaxRows, blank \in Blanks :
       source \in {TextCol :> c : c \in SourceComments(n, blank)}
  /\ classifier = AnyClassifier
  /\ pickle = NoFile
  /\ NotStarted
  /\ EnvironmentOk
  /\ LoadUnused
  /\ ExportUnused
  /\ UploadUnused
  /\ StatsUnused
  /\ CdkUnused

\* Mutant of NoTextColumn: the column is looked for after the copy has got
\* its label column, and the copy is returned.
NoTextColumn_copy(s, t) == WithLabelCol(s, t)

\* if comment_column not in df.columns: return df
NoTextColumn(s, t) == t

\* boto3.client(service_name='bedrock-runtime'): with credentials it
\* returns the client; without them it raises, or returns a client whose
\* requests fail (credentials are resolved when a request is signed).
ClientRaises == IF credentials THEN {FALSE} ELSE BOOLEAN

\* Mutant of Loaded: the predecessor's table is always taken.
Loaded_upstream(f, t) == t

\* df = load_data(); if os.path.exists(pickle): df = pd.read_pickle(pickle)
Loaded(f, t) == IF f.exists THEN f.df ELSE t

\* __main__ up to the batch loop of process_*_batch: load the predecessor's
\* table (stop if it is missing), prefer the stage's own checkpoint, return
\* the table as it is if it has no text column, create the client (stop if
\* that fails), copy, add the label column, select the rows to process,
\* return at once if there are none.
Main ==
  /\ pc \in {"idle", "returned", "aborted"}
  /\ LET loaded == Loaded(pickle, source)
         copy == WithLabelCol(stage, loaded)
         rows == comments_to_process(stage, copy)
     IN IF ~input_exists
          THEN \* load_data: sys.exit(1); load_ticket_data raises
               /\ df' = source /\ result_df' = source /\ todo' = <<>>
               /\ pc' = "aborted"
        ELSE IF TextCol \notin DOMAIN loaded
          THEN \* "Column not found": return df
               /\ df' = loaded /\ result_df' = NoTextColumn(stage, loaded)
               /\ todo' = <<>>
               /\ pc' = "returned"
        ELSE \E client_raises \in ClientRaises :
               IF client_raises
                 THEN \* "Error initializing Bedrock client": sys.exit(1)
                      /\ df' = loaded /\ result_df' = loaded /\ todo' = <<>>
                      /\ pc' = "aborted"
                 ELSE /\ df' = loaded
                      /\ result_df' = copy
                      /\ todo' = rows
                      /\ pc' = IF Len(rows) = 0 THEN "returned" ELSE "row"
  /\ i' = 0 /\ j' = 0
  /\ retry_count' = 0 /\ label' = None
  /\ attempts' = 0 /\ tick' = 0 /\ slept' = 0
  /\ called' = {} /\ ncalls' = 0
  /\ write_failed' = FALSE
  /\ UNCHANGED <<config, pickle>>

\* After a row: the next row of the batch, or the end of the batch.
NextRow ==
  /\ IF j + 1 < batch_len
       THEN j' = j + 1 /\ pc' = "row"
       ELSE j' = j /\ pc' = "endbatch"
  /\ i' = i

\* "Skip empty comments"
SkipEmpty ==
  /\ pc = "row"
  /\ LET comment == df[TextCol][idx]
     IN /\ IsBlank(comment)
        /\ result_df' = SetCell(result_df, LabelCol(stage), idx, BlankLabel(stage))
  /\ NextRow
  /\ UNCHANGED <<config, pickle, df, todo, rowvars, called, ncalls, write_failed>>

\* retry_count = 0; sentiment = None
BeginRetries ==
  /\ pc = "row"
  /\ LET comment == df[TextCol][idx]
     IN ~IsBlank(comment)
  /\ retry_count' = 0 /\ label' = None
  /\ attempts' = 0 /\ tick' = 0 /\ slept' = 0
  /\ pc' = "while"
  /\ UNCHANGED <<config, pickle, df, result_df, todo, i, j, called, ncalls,
                 write_failed>>

\* One pass of `while sentiment is None and retry_count < max_retries`.
Attempt ==
  /\ pc = "while"
  /\ label = None /\ retry_count < max_retries
  /\ \E res \in CallResults(idx) :
       IF res.raised
         THEN /\ retry_count' = retry_count + 1
              /\ slept' = IF retry_count + 1 < max_retries
                            THEN slept + RetryDelay ELSE slept
              /\ label' = label
         ELSE /\ label' = res.value
              /\ UNCHANGED <<retry_count, slept>>
  /\ attempts' = Min(attempts + 1, max_retries + 1)
  /\ tick' = 1 - tick
  /\ called' = called \cup {idx}
  /\ ncalls' = Min(ncalls + 1, MaxCalls)
  /\ UNCHANGED <<config, pickle, pc, df, result_df, todo, i, j, write_failed>>

\* "Store result"
Store ==
  /\ pc = "while"
  /\ ~(label = None /\ retry_count < max_retries)
  /\ result_df' = SetCell(result_df, LabelCol(stage), idx,
                          IF label # None THEN label ELSE FailLabel)
  /\ NextRow
  /\ UNCHANGED <<config, pickle, df, todo, rowvars, called, ncalls, write_failed>>

\* Mutant of to_pickle: the argument df is written, not the working copy.
to_pickle_stale(t, raised) == IF raised THEN pickle ELSE File(df)

\* try: result_df.to_pickle(output_pickle); except Exception: print(...).
\* The file after the statement: the table, or the file as it was when the
\* write raised.
to_pickle(t, raised) == IF raised THEN pickle ELSE File(t)

\* "Save intermediate results every 5 batches", then the next batch.
EndBatch ==
  /\ pc = "endbatch"
  /\ IF (i \div batch_size) % SaveEvery = 0 /\ i > 0
       THEN \E raised \in BOOLEAN :
              /\ pickle' = to_pickle(result_df, raised)
              /\ write_failed' = (write_failed \/ raised)
       ELSE UNCHANGED <<pickle, write_failed>>
  /\ i' = i + batch_size
  /\ j' = 0
  /\ pc' = IF i + batch_size < total_to_process THEN "row" ELSE "final"
  /\ UNCHANGED <<config, df, result_df, todo, rowvars, called, ncalls>>

\* After the loop: the numeric column (resolution, understanding), the final
\* save, return result_df.
Finish ==
  /\ pc = "final"
  /\ LET out == IF HasNumericCol(stage)
                  THEN SetCol(result_df, NumericCol(stage),
                              [r \in 1..NRows(result_df) |->
                                 StageNumeric(stage, result_df[LabelCol(stage)][r])])
                  ELSE result_df
     IN /\ result_df' = out
        /\ \E raised \in BOOLEAN :
             /\ pickle' = to_pickle(out, raised)
             /\ write_failed' = (write_failed \/ raised)
  /\ pc' = "returned"
  /\ UNCHANGED <<config, df, todo, i, j, rowvars, called, ncalls>>

\* The process is terminated in the middle of a run: memory is lost, the
\* files stay.
Crash ==
  /\ pc \in {"row", "while", "endbatch", "final"}
  /\ pc' = "idle"
  /\ df' = source /\ result_df' = source /\ todo' = <<>>
  /\ i' = 0 /\ j' = 0
  /\ retry_count' = 0 /\ label' = None
  /\ attempts' = 0 /\ tick' = 0 /\ slept' = 0
  /\ called' = {} /\ ncalls' = 0
  /\ write_failed' = FALSE
  /\ UNCHANGED <<config, pickle>>

\* 02_convert_to_numeric.py, __main__: load sentiment_results.pkl (exit if
\* it is not there), convert, save numeric_results.pkl, return.
ConvertMain ==
  /\ pc \in {"idle", "returned"}
  /\ stage = "sentiment"
  /\ pickle.exists
  /\ LET c == convert_to_numeric(pickle.df)
     IN /\ numeric_arg' = c.arg
        /\ IF c.raised
             THEN /\ numeric_pc' = "raised"
                  /\ numeric_df' = <<>>
                  /\ numeric_pickle' = numeric_pickle
             ELSE /\ numeric_pc' = "done"
                  /\ numeric_df' = c.result
                  /\ \E saved \in BOOLEAN :
                       numeric_pickle' = IF saved THEN File(c.result) ELSE numeric_pickle
  /\ UNCHANGED <<stage, batch_size, source, classifier, stagevars, statsvars, cdkvars,
                 guardvars, loadvars, exportvars, uploadvars>>

\* Mutant of PickleLoads: an unreadable pickle is taken for a readable one.
PickleLoads_exists(f) == f.exists

\* os.path.exists(output_pickle) and pd.read_pickle does not raise
PickleLoads(f) == f.exists /\ f.ok

\* load_ticket_data(): the pickle if it loads; otherwise the CSV, which is
\* then pickled (a failure of to_pickle is only reported, and may leave an
\* unreadable file); FileNotFoundError without the CSV; the parse error of
\* read_csv is re-raised.
load_ticket_data ==
  /\ LET tried == IF raw_pickle.exists THEN {"pickle"} ELSE {}
     IN IF PickleLoads(raw_pickle)
          THEN /\ load_pc' = "returned"
               /\ load_df' = raw_pickle.df
               /\ load_reads' = {"pickle"}
               /\ load_wrote' = "no"
               /\ raw_pickle' = raw_pickle
        ELSE IF ~csv_file.exists
          THEN /\ load_pc' = "not_found"
               /\ load_df' = <<>>
               /\ load_reads' = tried
               /\ load_wrote' = "no"
               /\ raw_pickle' = raw_pickle
        ELSE IF ~csv_file.ok
          THEN /\ load_pc' = "parse_error"
               /\ load_df' = <<>>
               /\ load_reads' = tried \cup {"csv"}
               /\ load_wrote' = "no"
               /\ raw_pickle' = raw_pickle
        ELSE /\ load_pc' = "returned"
             /\ load_df' = csv_file.df
             /\ load_reads' = tried \cup {"csv"}
             /\ \/ load_wrote' = "saved" /\ raw_pickle' = RawFile(csv_file.df)
                \/ load_wrote' = "failed" /\ raw_pickle' \in {raw_pickle, BadRawFile}
  /\ UNCHANGED <<stage, batch_size, source, classifier, stagevars, numericvars, statsvars, cdkvars,
                 guardvars, csv_file, exportvars, uploadvars>>

\* 05_create_neptune_gremlin.py: load causal_analysis.pkl and call
\* convert_to_neptune_gremlin_csv(df, 'neptune_export'). astype(int) raises
\* on a null flag before anything is written; reading the column
\* resolution_effect raises KeyError when the four vertex files are written
\* and no edge file is.
convert_to_neptune_gremlin_csv ==
  /\ direct_prev' = direct_dir
  /\ direct_runs' = Min(direct_runs + 1, MaxRuns)
  /\ IF AstypeRaises(export_df)
       THEN /\ direct_pc' = "raised"
            /\ direct_dir' = direct_dir
     ELSE IF "resolution_effect" \notin DOMAIN export_df
       THEN /\ direct_pc' = "raised"
            /\ direct_dir' = VertexFiles(export_df) @@ direct_dir
     ELSE /\ direct_pc' = "done"
          /\ direct_dir' = EdgeFiles(export_df) @@ VertexFiles(export_df)
  /\ UNCHANGED <<stage, batch_size, source, classifier, stagevars, numericvars, statsvars, cdkvars,
                 guardvars, loadvars, export_df, bulkvars, uploadvars>>

\* 05_create_neptune_gremlin_bulk.py, __main__: load causal_analysis.pkl,
\* warn and add the placeholder column if resolution_effect is missing,
\* build the vertices and the edges, write the two files, the load command
\* and the sample queries. An exception (int() of a null cell) ends the run
\* with an error message before anything is written.
BulkMain ==
  /\ bulk_prev' = bulk_dir
  /\ bulk_runs' = Min(bulk_runs + 1, MaxRuns)
  /\ bulk_warned' = ("resolution_effect" \notin DOMAIN export_df)
  /\ LET t == WithPlaceholder(export_df)
     IN IF IntRaises(t)
          THEN /\ bulk_pc' = "raised"
               /\ bulk_dir' = bulk_dir
          ELSE /\ bulk_pc' = "done"
               /\ \E seed \in 1..MaxSeeds :
                    bulk_dir' =
                      ("neptune_vertices.csv" :> create_neptune_bulk_vertices(t))
                        @@ ("neptune_edges.csv" :> create_neptune_bulk_edges(t, seed))
                        @@ ("neptune_bulk_load_command.sh" :> <<"bulk_load_command">>)
                        @@ ("neptune_sample_queries.txt" :> <<"sample_queries">>)
  /\ UNCHANGED <<stage, batch_size, source, classifier, stagevars, numericvars, statsvars, cdkvars,
                 guardvars, loadvars, export_df, directvars, uploadvars>>

\* 06, main() up to the upload loop: list the CSV files of the data
\* directory; return if there are none.
UploadMain ==
  /\ upload_pc \in {"idle", "done", "raised"}
  /\ csv_files' \in Listings({f \in data_dir : IsCsv(f)})
  /\ uploaded' = <<>>
  /\ graph_calls' = <<>>
  /\ status' = "none"
  /\ upload_pc' = IF csv_files' = <<>> THEN "done" ELSE "uploading"
  /\ UNCHANGED <<stage, batch_size, source, classifier, stagevars, numericvars, statsvars, cdkvars,
                 guardvars, loadvars, exportvars, uploadargs>>

\* One pass of `for csv_file in csv_files`: upload_file_to_s3 puts the file
\* under its key, or s3.upload_file raises and ends the script.
upload_file_to_s3 ==
  /\ upload_pc = "uploading"
  /\ LET name == csv_files[Len(uploaded) + 1]
         s3_key == S3Key(s3_prefix, name)
     IN \/ /\ uploaded' = Append(uploaded,
                                  [file_path |-> FilePath(name), bucket |-> S3Bucket,
                                   key |-> s3_key, uri |-> S3Uri(S3Bucket, s3_key)])
           /\ upload_pc' = IF Len(uploaded) + 1 = Len(csv_files) THEN "load" ELSE "uploading"
        \/ /\ uploaded' = uploaded
           /\ upload_pc' = "raised"
  /\ UNCHANGED <<stage, batch_size, source, classifier, stagevars, numericvars, statsvars, cdkvars,
                 guardvars, loadvars, exportvars, uploadargs, csv_files,
                 graph_calls, status>>

\* load_data_to_neptune_analytics and the end of main(): without an
\* endpoint, or when the graph client cannot be created, nothing is sent and
\* the result is False; otherwise the load query is sent once and the
\* result is the response's payload, or None when execute_query raised.
load_data_to_neptune_analytics ==
  /\ upload_pc = "load"
  /\ \E outcome \in (IF endpoint = "" THEN {"no_endpoint"}
                      ELSE {"no_client", "query_error", "payload"}) :
       IF outcome \in {"no_endpoint", "no_client"}
         THEN /\ graph_calls' = graph_calls
              /\ status' = "False"
         ELSE /\ graph_calls' = Append(graph_calls,
                                       LoadQuery(S3PrefixUri(S3Bucket, s3_prefix)))
              /\ status' = IF outcome = "payload" THEN "payload" ELSE "None"
  /\ upload_pc' = "done"
  /\ UNCHANGED <<stage, batch_size, source, classifier, stagevars, numericvars, statsvars, cdkvars,
                 guardvars, loadvars, exportvars, uploadargs, csv_files, uploaded>>

Next ==
  \/ Main
  \/ SkipEmpty
  \/ BeginRetries
  \/ Attempt
  \/ Store
  \/ EndBatch
  \/ Finish
  \/ Crash

Spec == Init /\ [][Next]_vars

\* A run that is not terminated from outside, and keeps running.
NextRun ==
  \/ Main
  \/ SkipEmpty
  \/ BeginRetries
  \/ Attempt
  \/ Store
  \/ EndBatch
  \/ Finish

FairSpec == Init /\ [][NextRun]_vars /\ WF_vars(NextRun)

\* One-row tables and a classifier stub that gives one fixed response.
StubClassifier(answers) == [kind |-> "stub", answers |-> answers]

InitKeyword ==
  /\ stage \in Stages
  /\ batch_size \in 1..MaxBatchSize
  /\ \E blank \in Blanks : source \in {TextCol :> c : c \in [1..1 -> Comments(blank)]}
  /\ classifier \in {StubClassifier(<<t>>) : t \in Responses(stage)}
  /\ pickle = NoFile
  /\ NotStarted
  /\ EnvironmentOk
  /\ LoadUnused
  /\ ExportUnused
  /\ UploadUnused
  /\ StatsUnused
  /\ CdkUnused

SpecKeyword == InitKeyword /\ [][Next]_vars

\* The stages on small tables with or without the text column, with or
\* without their input file, and with or without the client's credentials.
OtherCol == "rating"

GuardTables(n) ==
  {TextCol :> c : c \in UNION {[1..n -> Comments(blank)] : blank \in Blanks}}
    \cup {OtherCol :> [r \in 1..n |-> "good"]}

InitGuard ==
  /\ stage \in Stages
  /\ batch_size \in 1..MaxBatchSize
  /\ source \in UNION {GuardTables(n) : n \in 0..MaxGuardRows}
  /\ classifier = AnyClassifier
  /\ pickle = NoFile
  /\ NotStarted
  /\ input_exists \in BOOLEAN
  /\ credentials \in BOOLEAN
  /\ LoadUnused
  /\ ExportUnused
  /\ UploadUnused
  /\ StatsUnused
  /\ CdkUnused

SpecGuard == InitGuard /\ [][Next]_vars

\* Runs of a stage between which the table of its predecessor is replaced
\* (rows added or removed, comments edited).
RerunTables ==
  {TextCol :> c : c \in UNION {[1..n -> {"", "text", "edited"}] : n \in 0..MaxRerunRows}}

InitRerun ==
  /\ stage \in Stages
  /\ batch_size \in 1..MaxBatchSize
  /\ source \in RerunTables
  /\ classifier = AnyClassifier
  /\ pickle = NoFile
  /\ NotStarted
  /\ EnvironmentOk
  /\ LoadUnused
  /\ ExportUnused
  /\ UploadUnused
  /\ StatsUnused
  /\ CdkUnused

\* Table t is table u with a last row added or removed, or with the comment
\* of one row edited.
OneEdit(u, t) ==
  LET a == u[TextCol]
      b == t[TextCol]
  IN \/ Len(b) = Len(a) + 1 /\ SubSeq(b, 1, Len(a)) = a
     \/ Len(a) = Len(b) + 1 /\ SubSeq(a, 1, Len(b)) = b
     \/ /\ Len(a) = Len(b)
        /\ Cardinality({r \in 1..Len(a) : a[r] # b[r]}) = 1

\* The predecessor stage is run again between two runs of this stage and
\* leaves another table.
UpstreamChange ==
  /\ pc \in {"idle", "returned"}
  /\ source' \in {t \in RerunTables : OneEdit(source, t)}
  /\ UNCHANGED <<stage, batch_size, classifier, stagevars, numericvars, statsvars, cdkvars,
                 guardvars, loadvars, exportvars, uploadvars>>

NextRerun == Next \/ UpstreamChange

SpecRerun == InitRerun /\ [][NextRerun]_vars

\* The sentiment stage on three-row tables whose third comment is blank,
\* with a classifier stub that answers one word per row, followed by the
\* numeric projection.
OneWord(s) == {<<m>> : m \in Morphemes(s)}

InitE2E ==
  /\ stage = "sentiment"
  /\ batch_size \in 1..MaxBatchSize
  /\ source \in {TextCol :> <<"text", "text", blank>> : blank \in Blanks}
  /\ classifier \in {StubClassifier(a) : a \in [1..3 -> OneWord("sentiment")]}
  /\ pickle = NoFile
  /\ NotStarted
  /\ EnvironmentOk
  /\ LoadUnused
  /\ ExportUnused
  /\ UploadUnused
  /\ StatsUnused
  /\ CdkUnused

NextE2E == Next \/ ConvertMain

SpecE2E == InitE2E /\ [][NextE2E]_vars

\* convert_to_numeric on the tables sentiment_results.pkl may hold: any of
\* the four source columns present or absent, up to MaxNumericRows rows.
SentimentCells == {"positive", "negative", "neutral", "unknown", None}
RatingCells == {"good", "offered", "bad"}
SupportCaseCells == {"True", "False", None}
PlatformCells == {"amazon_web_services", "azure", None}

SourceCells(c) ==
  CASE c = "sentiment" -> SentimentCells
    [] c = "rating" -> RatingCells
    [] c = "cloud_support_case_used" -> SupportCaseCells
    [] c = "custom_platform" -> PlatformCells

SourceColumns == {"sentiment", "rating", "cloud_support_case_used", "custom_platform"}

\* The tables with the columns cols and n rows.
Tables(cols, n) ==
  {t \in [cols -> UNION {[1..n -> SourceCells(c)] : c \in cols}] :
     \A c \in cols : t[c] \in [1..n -> SourceCells(c)]}

InitNumeric ==
  /\ stage = "sentiment"
  /\ batch_size = 1
  /\ source = (TextCol :> <<>>)
  /\ classifier = AnyClassifier
  /\ \E cols \in SUBSET SourceColumns, n \in 1..MaxNumericRows :
       pickle \in {File(t) : t \in Tables(cols, n)}
  /\ NotStarted
  /\ EnvironmentOk
  /\ LoadUnused
  /\ ExportUnused
  /\ UploadUnused
  /\ StatsUnused
  /\ CdkUnused

SpecNumeric == InitNumeric /\ [][ConvertMain]_vars

\* load_ticket_data on every combination of its two files: each absent,
\* unreadable, or holding a table of up to MaxLoadRows rows (read_csv gives
\* NaN for an empty field).
LoadTables ==
  {TextCol :> c : c \in UNION {[1..n -> {NaN, "text", "other"}] : n \in 0..MaxLoadRows}}

RawFiles == {NoRawFile, BadRawFile} \cup {RawFile(t) : t \in LoadTables}

InitLoad ==
  /\ stage = "sentiment"
  /\ batch_size = 1
  /\ source = (TextCol :> <<>>)
  /\ classifier = AnyClassifier
  /\ pickle = NoFile
  /\ NotStarted
  /\ EnvironmentOk
  /\ raw_pickle \in RawFiles
  /\ csv_file \in RawFiles
  /\ LoadIdle
  /\ ExportUnused
  /\ UploadUnused
  /\ StatsUnused
  /\ CdkUnused

SpecLoad == InitLoad /\ [][load_ticket_data]_vars

\* The two exporters on the enriched tables the pipeline hands them: the
\* two status columns with their numeric columns (as the resolution and
\* understanding stages derive them), and optionally the causal-effect
\* column, the support-case flag and a ticket_id column.
StatusLabels(s) == {PosLabel(s), NegLabel(s), FailLabel}

ExportTables(n) ==
  {("resolution_status" :> res)
     @@ ("resolution_numeric" :> [r \in 1..n |-> StageNumeric("resolution", res[r])])
     @@ ("understanding_status" :> und)
     @@ ("understanding_numeric" :>
           [r \in 1..n |-> StageNumeric("understanding", und[r])])
     @@ (IF has_effect THEN "resolution_effect" :> effect ELSE <<>>)
     @@ (IF has_flag THEN "cloud_support_case_used" :> flag ELSE <<>>)
     @@ (IF has_id THEN "ticket_id" :> [r \in 1..n |-> IndexStr(r)] ELSE <<>>) :
     res \in [1..n -> StatusLabels("resolution")],
     und \in [1..n -> StatusLabels("understanding")],
     has_effect \in BOOLEAN, effect \in [1..n -> {"0", "1"}],
     has_flag \in BOOLEAN, flag \in [1..n -> {"True", "False"}],
     has_id \in BOOLEAN}

InitExport ==
  /\ stage = "sentiment"
  /\ batch_size = 1
  /\ source = (TextCol :> <<>>)
  /\ classifier = AnyClassifier
  /\ pickle = NoFile
  /\ NotStarted
  /\ EnvironmentOk
  /\ LoadUnused
  /\ export_df \in UNION {ExportTables(n) : n \in 0..MaxExportRows}
  /\ ExportIdle
  /\ UploadUnused
  /\ StatsUnused
  /\ CdkUnused

NextExport ==
  \/ convert_to_neptune_gremlin_csv
  \/ BulkMain

SpecExport == InitExport /\ [][NextExport]_vars

\* The direct exporter alone, on the enriched tables with the two status
\* columns, their numeric columns and optionally the causal-effect column.
DirectTables(n) ==
  {t \in ExportTables(n) :
     "cloud_support_case_used" \notin DOMAIN t /\ "ticket_id" \notin DOMAIN t}

InitDirect ==
  /\ stage = "sentiment"
  /\ batch_size = 1
  /\ source = (TextCol :> <<>>)
  /\ classifier = AnyClassifier
  /\ pickle = NoFile
  /\ NotStarted
  /\ EnvironmentOk
  /\ LoadUnused
  /\ export_df \in UNION {DirectTables(n) : n \in 0..MaxExportRows}
  /\ ExportIdle
  /\ UploadUnused
  /\ StatsUnused
  /\ CdkUnused

SpecDirect == InitDirect /\ [][convert_to_neptune_gremlin_csv]_vars

\* The bulk exporter alone, on tables with the resolution columns as the
\* resolution stage derives them, optionally the sentiment_numeric and
\* rating_numeric columns as convert_to_numeric derives them, and optionally
\* the causal-effect column.
BulkTables(n) ==
  {("resolution_status" :> res)
     @@ ("resolution_numeric" :> [r \in 1..n |-> StageNumeric("resolution", res[r])])
     @@ (IF has_sentiment
           THEN "sentiment_numeric" :> [r \in 1..n |-> SentimentNumeric(sen[r])]
           ELSE <<>>)
     @@ (IF has_rating
           THEN "rating_numeric" :> [r \in 1..n |-> RatingNumeric(rat[r])]
           ELSE <<>>)
     @@ (IF has_effect THEN "resolution_effect" :> [r \in 1..n |-> "1"] ELSE <<>>) :
     res \in [1..n -> StatusLabels("resolution")],
     has_sentiment \in BOOLEAN, sen \in [1..n -> {"positive", "negative", "neutral"}],
     has_rating \in BOOLEAN, rat \in [1..n -> {"good", "offered"}],
     has_effect \in BOOLEAN}

InitBulk ==
  /\ stage = "sentiment"
  /\ batch_size = 1
  /\ source = (TextCol :> <<>>)
  /\ classifier = AnyClassifier
  /\ pickle = NoFile
  /\ NotStarted
  /\ EnvironmentOk
  /\ LoadUnused
  /\ export_df \in UNION {BulkTables(n) : n \in 0..MaxExportRows}
  /\ ExportIdle
  /\ UploadUnused
  /\ StatsUnused
  /\ CdkUnused

SpecBulk == InitBulk /\ [][BulkMain]_vars

\* The upload script on a data directory with up to MaxFiles of the
\* exported files and a file that is no CSV file.
FileNames ==
  {<<"rating_vertices", ".csv">>, <<"ticket_vertices", ".csv">>,
   <<"ticket_rating_edges", ".csv">>, <<"resolution_vertices", ".csv">>,
   <<"README", ".md">>}

InitUpload ==
  /\ stage = "sentiment"
  /\ batch_size = 1
  /\ source = (TextCol :> <<>>)
  /\ classifier = AnyClassifier
  /\ pickle = NoFile
  /\ NotStarted
  /\ EnvironmentOk
  /\ LoadUnused
  /\ ExportUnused
  /\ endpoint \in {"g-graph", ""}
  /\ s3_prefix \in {"neptune-analytics-data", "other-prefix"}
  /\ data_dir \in {d \in SUBSET FileNames : Cardinality(d) <= MaxFiles}
  /\ UploadIdle
  /\ StatsUnused
  /\ CdkUnused

NextUpload ==
  \/ UploadMain
  \/ upload_file_to_s3
  \/ load_data_to_neptune_analytics

SpecUpload == InitUpload /\ [][NextUpload]_vars

\* display_statistics on the tables convert_to_numeric returns, for tables
\* of up to MaxStatsRows rows with any of the four source columns.
StatsCells(c) ==
  CASE c = "sentiment" -> {"positive", "negative", "neutral"}
    [] c = "rating" -> RatingCells
    [] c = "cloud_support_case_used" -> {"True", "False"}
    [] c = "custom_platform" -> {"amazon_web_services", "azure"}

StatsTables(cols, n) ==
  {t \in [cols -> UNION {[1..n -> StatsCells(c)] : c \in cols}] :
     \A c \in cols : t[c] \in [1..n -> StatsCells(c)]}

InitStats ==
  /\ stage = "sentiment"
  /\ batch_size = 1
  /\ source = (TextCol :> <<>>)
  /\ classifier = AnyClassifier
  /\ pickle = NoFile
  /\ NotStarted
  /\ EnvironmentOk
  /\ LoadUnused
  /\ ExportUnused
  /\ UploadUnused
  /\ \E cols \in SUBSET SourceColumns, n \in 0..MaxStatsRows :
       stats_df \in {convert_to_numeric(t).result : t \in StatsTables(cols, n)}
  /\ StatsIdle
  /\ CdkUnused

\* display_statistics(df): the sections are printed; no statement of it
\* raises on a table whose numeric columns hold 1, 0 and null cells.
display_statistics ==
  /\ stats_pc' = "done"
  /\ stats_out' = statistics(stats_df)
  /\ UNCHANGED <<stage, batch_size, source, classifier, stagevars, numericvars,
                 stats_df, cdkvars, guardvars, loadvars, exportvars, uploadvars>>

SpecStats == InitStats /\ [][display_statistics]_vars

\* The agent's handler on the events of an action group: any of the keys
\* may be missing; parameters is a list (as the agent runtime sends it) or a
\* mapping.
ParameterValues ==
  {ListOf(<<>>),
   ListOf(<<[name |-> "anomaly_type", type |-> "string", value |-> "extreme_effects"]>>),
   ListOf(<<[name |-> "query", type |-> "string", value |-> "MATCH (n) RETURN count(n)"]>>),
   DictOf(<<>>),
   DictOf("anomaly_type" :> "sentiment_rating_mismatch"),
   DictOf("anomaly_type" :> "extreme_effects"),
   DictOf("anomaly_type" :> "other"),
   DictOf("query" :> "MATCH (n) RETURN count(n)"),
   DictOf("query" :> "")}

AgentEvents ==
  {(IF has_action THEN "actionGroup" :> "causal-analysis" ELSE <<>>)
     @@ (IF has_path THEN "apiPath" :> api_path ELSE <<>>)
     @@ (IF has_method THEN "httpMethod" :> "GET" ELSE <<>>)
     @@ (IF has_parameters THEN "parameters" :> parameters ELSE <<>>) :
     has_action \in BOOLEAN,
     has_path \in BOOLEAN, api_path \in KnownPaths \cup {"/other"},
     has_method \in BOOLEAN,
     has_parameters \in BOOLEAN, parameters \in ParameterValues}

InitAgent ==
  /\ stage = "sentiment"
  /\ batch_size = 1
  /\ source = (TextCol :> <<>>)
  /\ classifier = AnyClassifier
  /\ pickle = NoFile
  /\ NotStarted
  /\ EnvironmentOk
  /\ LoadUnused
  /\ ExportUnused
  /\ UploadUnused
  /\ StatsUnused
  /\ agent_event \in AgentEvents
  /\ AgentIdle
  /\ cfn_event = <<>>
  /\ ProviderIdle

\* One invocation of handler(event, context). Every statement of it is in
\* the try block, and the except branch only reads the event with .get, so
\* the invocation returns a response.
AgentInvoke ==
  /\ \E outcome \in {"payload", "error"} :
       LET h == app_handler(agent_event, outcome)
       IN /\ agent_response' = h.response
          /\ agent_queries' = h.queries
  /\ agent_pc' = "returned"
  /\ UNCHANGED <<stage, batch_size, source, classifier, stagevars, numericvars,
                 statsvars, agent_event, providervars, guardvars, loadvars,
                 exportvars, uploadvars>>

SpecAgent == InitAgent /\ [][AgentInvoke]_vars

\* ------------------------------------------ the custom-resource provider
\* The resource properties of an event: the resource type, the session
\* time-to-live and the agent an action group belongs to, each given or not.
ResourceProperties ==
  {(IF has_type THEN "ResourceType" :> resource_type ELSE <<>>)
     @@ (IF has_ttl THEN "IdleSessionTTLInSeconds" :> ttl ELSE <<>>)
     @@ (IF has_agent THEN "AgentId" :> "agent-0" ELSE <<>>) :
     has_type \in BOOLEAN, resource_type \in {"Agent", "ActionGroup", "Other"},
     has_ttl \in BOOLEAN, ttl \in {"600", "ten minutes"},
     has_agent \in BOOLEAN}

ProviderEvents ==
  {(IF has_request THEN "RequestType" :> request_type ELSE <<>>)
     @@ (IF has_properties THEN "ResourceProperties" :> properties ELSE <<>>)
     @@ (IF has_physical THEN "PhysicalResourceId" :> physical_id ELSE <<>>) :
     has_request \in BOOLEAN, request_type \in {"Create", "Update", "Delete"},
     has_properties \in BOOLEAN, properties \in ResourceProperties,
     has_physical \in BOOLEAN, physical_id \in {"", "id-0"}}

InitProvider ==
  /\ stage = "sentiment"
  /\ batch_size = 1
  /\ source = (TextCol :> <<>>)
  /\ classifier = AnyClassifier
  /\ pickle = NoFile
  /\ NotStarted
  /\ EnvironmentOk
  /\ LoadUnused
  /\ ExportUnused
  /\ UploadUnused
  /\ StatsUnused
  /\ agent_event = <<>>
  /\ AgentIdle
  /\ cfn_event \in ProviderEvents
  /\ ProviderIdle

\* One invocation of handler(event, context) of the provider.
ProviderInvoke ==
  /\ \E outcome \in ServiceOutcomes :
       LET h == provider_handler(cfn_event, outcome)
       IN /\ cfn_calls' = h.calls
          /\ cfn_sent' = h.sent
  /\ cfn_pc' = "returned"
  /\ UNCHANGED <<stage, batch_size, source, classifier, stagevars, numericvars,
                 statsvars, agentvars, cfn_event, guardvars, loadvars,
                 exportvars, uploadvars>>

SpecProvider == InitProvider /\ [][ProviderInvoke]_vars

\* ------------------------------------------------------------------ claims
\* The label row r had when the run started (None without the label column).
EntryLabel(r) ==
  IF LabelCol(stage) \in DOMAIN df THEN df[LabelCol(stage)][r] ELSE None

NullOnEntry == {r \in 1..NRows(df) : isna(EntryLabel(r))}

AllLabelled(t) ==
  /\ LabelCol(stage) \in DOMAIN t
  /\ \A r \in 1..NRows(t) : ~isna(t[LabelCol(stage)][r])

\* C1: for a row with non-empty text whose classifier call fails on every
\* attempt, the classifier is called at most (and, when the retry loop ends,
\* exactly) max_retries times, RetryDelay seconds are slept after every
\* failed attempt but the last, and the loop then ends with no result, so
\* that "unknown" is stored. In the retry loop label = None says that every
\* attempt so far has failed.
C1_RetryBound ==
  (pc = "while" /\ label = None) =>
     /\ attempts <= max_retries
     /\ slept = RetryDelay * Min(attempts, max_retries - 1)
     /\ (attempts = max_retries => retry_count = max_retries)

\* C2: whatever the classifier does, a run that is not killed returns, and
\* the table it returns has a label on every row.
C2_TerminatesAllLabelled ==
  /\ <>(pc = "returned")
  /\ [](pc = "returned" => AllLabelled(result_df))

\* C3: in every run (a first run, a resumed one, a re-run) the classifier is
\* called only for rows whose label was null on entry, every row labelled on
\* entry keeps its label in the working table, and a label once in the
\* checkpoint file stays in it unchanged.
C3_Run ==
  pc # "idle" =>
     /\ called \subseteq NullOnEntry
     /\ \A r \in (1..NRows(df)) \ NullOnEntry :
          result_df[LabelCol(stage)][r] = df[LabelCol(stage)][r]

C3_Checkpoint ==
  pickle.exists =>
     \A r \in 1..NRows(pickle.df) :
        ~isna(pickle.df[LabelCol(stage)][r]) =>
           /\ pickle'.exists
           /\ pickle'.df[LabelCol(stage)][r] = pickle.df[LabelCol(stage)][r]

C3_ResumeOnlyNull == []C3_Run /\ [][C3_Checkpoint]_vars

\* A resumed run returned: on entry one row carried the sentinel "unknown",
\* another was null, and the classifier was called for the null one.
C3_Witness ==
  /\ pc = "returned"
  /\ \E r1, r2 \in 1..NRows(df) :
       /\ EntryLabel(r1) = "unknown"
       /\ isna(EntryLabel(r2))
       /\ r2 \in called

\* C4: a run on a table whose label column is non-null on every row makes no
\* classifier call and returns at once a table equal to its input; and
\* running the stage again on the table a run returned and saved returns
\* that table again, without a call.
C4_Run ==
  (pc # "idle" /\ AllLabelled(df)) =>
     /\ pc = "returned"
     /\ ncalls = 0 /\ called = {} /\ attempts = 0
     /\ result_df = df

C4_Again ==
  (pc = "returned" /\ pickle = File(result_df) /\ Main) =>
     /\ pc' = "returned"
     /\ result_df' = result_df
     /\ ncalls' = 0 /\ called' = {}

C4_Idempotent == []C4_Run /\ [][C4_Again]_vars

\* A run on a fully labelled, non-empty table has returned.
C4_Witness ==
  /\ pc = "returned"
  /\ AllLabelled(df)
  /\ NRows(df) > 0
  /\ \E r \in 1..NRows(df) : df[TextCol][r] = "text"

\* C6: a row whose comment is empty or missing never causes a classifier
\* call; its label is null until the row is processed and then "neutral"
\* (sentiment) or "unknown" (resolution, understanding), also on return.
C6_Sentinel == IF stage = "sentiment" THEN "neutral" ELSE "unknown"

C6_EmptyText ==
  pc # "idle" =>
     \A r \in 1..NRows(df) :
        df[TextCol][r] \in {None, ""} =>
           /\ r \notin called
           /\ result_df[LabelCol(stage)][r] \in {None, C6_Sentinel}
           /\ (pc \in {"final", "returned"} =>
                 result_df[LabelCol(stage)][r] = C6_Sentinel)

\* A first run returned a table with a missing (NaN/None) comment and a
\* classified one.
C6_Witness ==
  /\ pc = "returned"
  /\ LabelCol(stage) \notin DOMAIN df
  /\ \E r \in 1..NRows(df) : df[TextCol][r] = None
  /\ called # {}

\* C10: when the resolution or understanding stage returns a (non-empty)
\* table, the table has the stage's numeric column and its value on every
\* row is the fixed image of the row's status label.
C10_Image(s, v) ==
  CASE v = PosLabel(s) -> "1"
    [] v = NegLabel(s) -> "0"
    [] OTHER -> IF s = "understanding" THEN "0" ELSE NaN

C10_NumericColumnOnReturn ==
  (pc = "returned" /\ HasNumericCol(stage) /\ NRows(result_df) > 0) =>
     /\ NumericCol(stage) \in DOMAIN result_df
     /\ \A r \in 1..NRows(result_df) :
          result_df[NumericCol(stage)][r] =
            C10_Image(stage, result_df[LabelCol(stage)][r])

\* C5: the positive-pole label is returned only for a response that
\* contains the positive keyword and is not ambiguous; a response with both
\* keywords or with neither gives the negative pole; in all three stages.
\* (SpecKeyword: the stub's response to the one row is classifier.answers[1];
\* a keyword is looked for ignoring case.)
C5_PosKeyword(s) ==
  CASE s = "sentiment" -> <<"positive">>
    [] s = "resolution" -> <<"resolved">>
    [] s = "understanding" -> <<"understood">>

C5_NegKeyword(s) ==
  CASE s = "sentiment" -> <<"negative">>
    [] s = "resolution" -> <<"un", "resolved">>
    [] s = "understanding" -> <<"mis", "understood">>

C5_Has(kw, text) == Contains(kw, Lower(text))

C5_KeywordMapping ==
  (pc = "while" /\ attempts > 0 /\ classifier.kind = "stub") =>
     LET text == classifier.answers[idx]
         hasPos == C5_Has(C5_PosKeyword(stage), text)
         hasNeg == C5_Has(C5_NegKeyword(stage), text)
     IN /\ (label = PosLabel(stage) => (hasPos /\ ~hasNeg))
        /\ ((hasPos <=> hasNeg) => label = NegLabel(stage))

\* C7: the three-row table with a blank third comment and the stub that
\* answers "negative" for row 1 and "positive" for row 2: the sentiment
\* stage returns the labels [negative, positive, neutral], a first run
\* makes exactly two classifier calls (rows 1 and 2), and the numeric
\* projection of the stage's output has sentiment_numeric [0, 1, null].
C7_Scenario ==
  /\ stage = "sentiment"
  /\ NRows(source) = 3
  /\ source[TextCol][1] = "text" /\ source[TextCol][2] = "text"
  /\ source[TextCol][3] \in {None, ""}
  /\ classifier.kind = "stub"
  /\ classifier.answers[1] = <<"negative">>
  /\ classifier.answers[2] = <<"positive">>

C7_EndToEnd ==
  C7_Scenario =>
     /\ (pc = "returned" =>
           /\ result_df["sentiment"] = <<"negative", "positive", "neutral">>
           /\ ("sentiment" \notin DOMAIN df => (ncalls = 2 /\ called = {1, 2})))
     /\ (numeric_pc = "done" =>
           /\ numeric_df["sentiment"] = <<"negative", "positive", "neutral">>
           /\ numeric_df["sentiment_numeric"] = <<"0", "1", NaN>>)
     /\ numeric_pc # "raised"

\* The scenario has run through both stages, the first in one run.
C7_Witness ==
  /\ C7_Scenario
  /\ pc = "returned"
  /\ "sentiment" \notin DOMAIN df
  /\ ncalls = 2
  /\ numeric_pc = "done"
  /\ numeric_pickle = File(numeric_df)

\* C8: convert_to_numeric maps, on every row, sentiment positive to 1,
\* negative to 0, neutral and unknown to null; rating good to 1, offered to
\* 0, anything else to null; the flag True to 1 and False to 0; the platform
\* to 1 when it is "amazon_web_services" and to 0 otherwise, never to null.
\* (SpecNumeric: the argument is pickle.df.)
C8_NumericProjection ==
  numeric_pc = "done" =>
     \A r \in 1..NRows(pickle.df) :
        /\ "sentiment" \in DOMAIN pickle.df =>
             LET v == pickle.df["sentiment"][r]
                 n == numeric_df["sentiment_numeric"][r]
             IN /\ (v = "positive" => n = "1")
                /\ (v = "negative" => n = "0")
                /\ (v \in {"neutral", "unknown"} => isna(n))
        /\ "rating" \in DOMAIN pickle.df =>
             LET v == pickle.df["rating"][r]
                 n == numeric_df["rating_numeric"][r]
             IN /\ (v = "good" => n = "1")
                /\ (v = "offered" => n = "0")
                /\ (v \notin {"good", "offered"} => isna(n))
        /\ "cloud_support_case_used" \in DOMAIN pickle.df =>
             LET v == pickle.df["cloud_support_case_used"][r]
                 n == numeric_df["support_case_numeric"][r]
             IN /\ (v = "True" => n = "1")
                /\ (v = "False" => n = "0")
        /\ "custom_platform" \in DOMAIN pickle.df =>
             LET v == pickle.df["custom_platform"][r]
                 n == numeric_df["aws_platform_numeric"][r]
             IN /\ (n = "1" <=> v = "amazon_web_services")
                /\ (n = "0" <=> v # "amazon_web_services")

\* A table with all four columns was converted: an unrated ("bad") row with
\* neutral sentiment and a missing platform.
C8_Witness ==
  /\ numeric_pc = "done"
  /\ DOMAIN pickle.df = SourceColumns
  /\ \E r \in 1..NRows(pickle.df) :
       /\ pickle.df["sentiment"][r] = "neutral"
       /\ pickle.df["rating"][r] = "bad"
       /\ pickle.df["cloud_support_case_used"][r] = "True"
       /\ pickle.df["custom_platform"][r] = None

\* C9: convert_to_numeric leaves its argument as it was, returns a table in
\* which every column of the argument has the same cells, and adds exactly
\* the numeric column of each source column that is present (the four names
\* end in _numeric); an absent source column adds nothing.
C9_NumericName(c) ==
  CASE c = "sentiment" -> "sentiment_numeric"
    [] c = "rating" -> "rating_numeric"
    [] c = "cloud_support_case_used" -> "support_case_numeric"
    [] c = "custom_platform" -> "aws_platform_numeric"

C9_SourceUntouched ==
  /\ numeric_pc # "idle" => numeric_arg = pickle.df
  /\ numeric_pc = "done" =>
       /\ \A c \in DOMAIN pickle.df : numeric_df[c] = pickle.df[c]
       /\ DOMAIN numeric_df =
            DOMAIN pickle.df \cup
              {C9_NumericName(c) : c \in SourceColumns \cap DOMAIN pickle.df}

\* A table with some source columns and without others was converted.
C9_Witness ==
  /\ numeric_pc = "done"
  /\ {"sentiment", "custom_platform"} \subseteq DOMAIN pickle.df
  /\ "rating" \notin DOMAIN pickle.df
  /\ "cloud_support_case_used" \notin DOMAIN pickle.df
  /\ "rating_numeric" \notin DOMAIN numeric_df

\* C11: load_ticket_data returns the pickle's table whenever the pickle file
\* exists and loads, and then neither reads the CSV nor writes a file;
\* otherwise it parses the CSV, calls to_pickle and returns the parsed table
\* (the pickle file then holds that table unless the write failed); it ends
\* with FileNotFoundError when the CSV does not exist and no pickle loaded,
\* and with the parse error when the CSV does not parse. (SpecLoad: every
\* step is one call.)
C11_Call ==
  IF raw_pickle.exists /\ raw_pickle.ok
    THEN /\ load_pc' = "returned"
         /\ load_df' = raw_pickle.df
         /\ "csv" \notin load_reads'
         /\ load_wrote' = "no"
         /\ raw_pickle' = raw_pickle /\ csv_file' = csv_file
  ELSE IF csv_file.exists /\ csv_file.ok
    THEN /\ load_pc' = "returned"
         /\ load_df' = csv_file.df
         /\ "csv" \in load_reads'
         /\ load_wrote' # "no"
         /\ (load_wrote' = "saved" => raw_pickle' = RawFile(csv_file.df))
         /\ csv_file' = csv_file
  ELSE /\ load_pc' = IF csv_file.exists THEN "parse_error" ELSE "not_found"
       /\ load_wrote' = "no"
       /\ raw_pickle' = raw_pickle /\ csv_file' = csv_file

C11_LoadPrefersCheckpoint == [][C11_Call]_vars

\* A call found an unreadable pickle, parsed a non-empty CSV and replaced
\* the pickle by the parsed table.
C11_Witness ==
  /\ load_pc = "returned"
  /\ load_reads = {"pickle", "csv"}
  /\ load_wrote = "saved"
  /\ raw_pickle = RawFile(load_df)
  /\ NRows(load_df) > 0

\* The "~id", "~from" and "~to" values of the records of the files, in row
\* order.
ExportKeys(rec) == [c \in DOMAIN rec \cap {"~id", "~from", "~to"} |-> rec[c]]
ExportIds(dir, files) ==
  [f \in files |-> [k \in 1..Len(dir[f]) |-> ExportKeys(dir[f][k])]]

DirectFiles ==
  {"rating_vertices.csv", "resolution_vertices.csv", "understanding_vertices.csv",
   "ticket_vertices.csv", "resolution_rating_edges.csv",
   "understanding_rating_edges.csv", "ticket_rating_edges.csv"}

BulkFiles == {"neptune_vertices.csv", "neptune_edges.csv"}

\* C12: when an exporter has exported the (same) enriched table twice, the
\* files of the second export hold the same records as those of the first,
\* with the same "~id", "~from" and "~to" values in the same row order; for
\* the direct exporter and for the bulk exporter.
C12_DeterministicExport ==
  /\ (direct_runs >= 2 /\ direct_pc = "done") =>
        /\ DOMAIN direct_dir = DOMAIN direct_prev
        /\ ExportIds(direct_dir, DirectFiles) = ExportIds(direct_prev, DirectFiles)
  /\ (bulk_runs >= 2 /\ bulk_pc = "done") =>
        /\ DOMAIN bulk_dir = DOMAIN bulk_prev
        /\ ExportIds(bulk_dir, BulkFiles) = ExportIds(bulk_prev, BulkFiles)

\* C13: for a table without the column resolution_effect, a run of either
\* exporter ends without an error and leaves all its vertex and edge files;
\* the direct exporter's AFFECTS edges carry the weight 0.5, the bulk
\* exporter warns and its causes edge has the effect 0.5 (for a table with
\* rows).
C13_Half == [num |-> 1, den |-> 2]

C13_PlaceholderWhenNoEffect ==
  "resolution_effect" \notin DOMAIN export_df =>
     /\ direct_runs > 0 =>
          /\ direct_pc = "done"
          /\ DOMAIN direct_dir = DirectFiles
          /\ \A k \in 1..Len(direct_dir["resolution_rating_edges.csv"]) :
               direct_dir["resolution_rating_edges.csv"][k]["weight"] = "0.5"
     /\ bulk_runs > 0 =>
          /\ bulk_pc = "done"
          /\ BulkFiles \subseteq DOMAIN bulk_dir
          /\ bulk_warned
          /\ NRows(export_df) > 0 =>
               LET edges == bulk_dir["neptune_edges.csv"]
               IN edges[Len(edges)]["effect_strength"] = C13_Half

\* The records of a file with a given "~label".
Labelled(file, lbl) == {k \in 1..Len(file) : file[k]["~label"] = lbl}

\* C14: after a run of the direct exporter on a table of n rows,
\* rating_vertices.csv holds the n vertices rating_<row> and
\* ticket_vertices.csv the n vertices ticket_<row>; resolution_vertices.csv
\* and understanding_vertices.csv hold exactly one vertex per distinct
\* (status, numeric) pair of the table; and the three edge files hold n
\* AFFECTS, n INFLUENCES and n HAS_RATING edges, every one with "~id",
\* "~from", "~to" and "~label".
C14_RowVertices(file, prefix) ==
  /\ Len(file) = NRows(export_df)
  /\ \A r \in 1..NRows(export_df) : file[r]["~id"] = <<prefix, IndexStr(r)>>

C14_StatusVertices(file, scol, ncol) ==
  LET pairs == {<<export_df[scol][r], export_df[ncol][r]>> :
                  r \in 1..NRows(export_df)}
  IN /\ Len(file) = Cardinality(pairs)
     /\ \A p \in pairs :
          Cardinality({k \in 1..Len(file) :
                         <<file[k][scol], file[k][ncol]>> = p}) = 1

C14_Edges(file, lbl) ==
  /\ Len(file) = NRows(export_df)
  /\ \A k \in 1..Len(file) :
       /\ {"~id", "~from", "~to", "~label"} \subseteq DOMAIN file[k]
       /\ file[k]["~label"] = lbl

C14_Counts ==
  /\ DOMAIN direct_dir = DirectFiles
  /\ C14_RowVertices(direct_dir["rating_vertices.csv"], "rating_")
  /\ C14_RowVertices(direct_dir["ticket_vertices.csv"], "ticket_")
  /\ C14_StatusVertices(direct_dir["resolution_vertices.csv"],
                        "resolution_status", "resolution_numeric")
  /\ C14_StatusVertices(direct_dir["understanding_vertices.csv"],
                        "understanding_status", "understanding_numeric")
  /\ C14_Edges(direct_dir["resolution_rating_edges.csv"], "AFFECTS")
  /\ C14_Edges(direct_dir["understanding_rating_edges.csv"], "INFLUENCES")
  /\ C14_Edges(direct_dir["ticket_rating_edges.csv"], "HAS_RATING")

C14_DirectCounts == direct_runs > 0 => C14_Counts

\* C15: after a run of the bulk exporter on a table of n rows,
\* neptune_vertices.csv holds n ticket vertices with the ids ticket:<id> and
\* the two factor vertices factor:resolution and factor:rating (also for
\* n = 0); neptune_edges.csv holds for every ticket exactly one has_factor
\* edge to each factor, and exactly one causes edge, from factor:resolution
\* to factor:rating, whose effect_strength is the mean of the column
\* resolution_effect, or 0 when the table has no such column.
C15_Effect ==
  IF "resolution_effect" \in DOMAIN export_df /\ NRows(export_df) > 0
    THEN mean(export_df["resolution_effect"])
    ELSE [num |-> 0, den |-> 1]

C15_Factors == {<<"factor:resolution">>, <<"factor:rating">>}

C15_Counts ==
  /\ BulkFiles \subseteq DOMAIN bulk_dir
  /\ LET vertices == bulk_dir["neptune_vertices.csv"]
         edges == bulk_dir["neptune_edges.csv"]
         n == NRows(export_df)
     IN /\ Cardinality(Labelled(vertices, "ticket")) = n
        /\ \A k \in Labelled(vertices, "ticket") :
             vertices[k]["~id"] = <<"ticket:">> \o vertices[k]["ticket_id"]
        /\ Cardinality(Labelled(vertices, "factor")) = 2
        /\ \A f \in C15_Factors :
             \E k \in Labelled(vertices, "factor") : vertices[k]["~id"] = f
        /\ Len(vertices) = n + 2
        /\ Cardinality(Labelled(edges, "has_factor")) = 2 * n
        /\ \A v \in Labelled(vertices, "ticket"), f \in C15_Factors :
             Cardinality({k \in Labelled(edges, "has_factor") :
                            /\ edges[k]["~from"] = vertices[v]["~id"]
                            /\ edges[k]["~to"] = f}) = 1
        /\ Cardinality(Labelled(edges, "causes")) = 1
        /\ \A k \in Labelled(edges, "causes") :
             /\ edges[k]["~from"] = <<"factor:resolution">>
             /\ edges[k]["~to"] = <<"factor:rating">>
             /\ edges[k]["effect_strength"] = C15_Effect

C15_BulkCounts == bulk_runs > 0 => C15_Counts

\* The keys under which this run has uploaded files, and the keys of the
\* CSV files of the data directory.
UploadedKeys == {uploaded[k].key : k \in 1..Len(uploaded)}
C16_Key(name) == <<s3_prefix, "/", name[1], name[2]>>
C16_CsvKeys == {C16_Key(f) : f \in {g \in data_dir : g[2] = ".csv"}}

\* The bulk-load request is sent only when every CSV file of the data
\* directory has been uploaded under <prefix>/<file name>; it names the
\* uploaded prefix; and no other request (no status poll) is ever sent to
\* the graph service, nor a second one.
C16_Order ==
  /\ Len(graph_calls) <= 1
  /\ UploadedKeys \subseteq C16_CsvKeys
  /\ graph_calls # <<>> =>
       /\ UploadedKeys = C16_CsvKeys
       /\ Len(uploaded) = Cardinality(C16_CsvKeys)
       /\ graph_calls[1].call = "neptune.load"
       /\ graph_calls[1].source = <<"s3://", S3Bucket, "/", s3_prefix, "/">>

\* C16 as stated: C16_Order, and a run that has ended has sent the
\* bulk-load request exactly once.
C16_UploadThenLoadOnce ==
  /\ C16_Order
  /\ upload_pc \in {"done", "raised"} => Len(graph_calls) = 1

\* C16 amended: C16_Order, and a run that ended with the payload of a
\* response or with a query error has sent the request exactly once, while a
\* run that found no CSV file, whose upload raised, or that could not set up
\* the graph client has sent none.
C16_UploadThenLoadAtMostOnce ==
  /\ C16_Order
  /\ upload_pc = "done" =>
       /\ status \in {"payload", "None"} => Len(graph_calls) = 1
       /\ status \in {"none", "False"} => Len(graph_calls) = 0
       /\ status = "none" <=> C16_CsvKeys = {}
  /\ upload_pc = "raised" => (graph_calls = <<>> /\ status = "none")

\* A run has uploaded two CSV files from a directory that also holds
\* another file, and the load request was answered.
C16_Witness ==
  /\ upload_pc = "done"
  /\ Len(uploaded) = 2
  /\ \E f \in data_dir : f[2] # ".csv"
  /\ status = "payload"
  /\ Len(graph_calls) = 1

\* C17: when the stage's input file is missing, or the credentials of the
\* classifier client are missing (and the table has the text column, so
\* that the client is needed), a run stops at once: it makes no classifier
\* call, labels no row and writes no checkpoint file.
C17_AbortsWithoutWork ==
  (pc # "idle" /\ (~input_exists \/ (~credentials /\ TextCol \in DOMAIN source))) =>
     /\ pc = "aborted"
     /\ ncalls = 0 /\ called = {} /\ attempts = 0
     /\ result_df = df
     /\ ~pickle.exists

\* C18: a run on a table without the text column returns the table it was
\* given, without a label column, makes no classifier call and writes no
\* checkpoint file (whether or not the client's credentials are there).
C18_NoTextColumnNoOp ==
  (pc # "idle" /\ input_exists /\ TextCol \notin DOMAIN source) =>
     /\ pc = "returned"
     /\ df = source
     /\ result_df = source
     /\ LabelCol(stage) \notin DOMAIN result_df
     /\ ncalls = 0 /\ called = {} /\ attempts = 0
     /\ ~pickle.exists

\* A run on a non-empty table without the text column has returned, with
\* no credentials configured.
C18_Witness ==
  /\ pc = "returned"
  /\ TextCol \notin DOMAIN df
  /\ NRows(df) > 0
  /\ ~credentials

\* C19: in every state of every sequence of runs (complete, interrupted,
\* resumed) that starts from a table without the label column, every
\* non-null label of the working table and of the checkpoint file is in
\* the stage's closed set.
C19_Labels(s) ==
  CASE s = "sentiment" -> {"positive", "negative", "neutral", "unknown"}
    [] s = "resolution" -> {"resolved", "unresolved", "unknown"}
    [] s = "understanding" -> {"understood", "misunderstood", "unknown"}

C19_Closed(t) ==
  LabelCol(stage) \in DOMAIN t =>
     \A r \in 1..NRows(t) :
        isna(t[LabelCol(stage)][r]) \/ t[LabelCol(stage)][r] \in C19_Labels(stage)

C19_LabelsInClosedSet ==
  /\ C19_Closed(result_df)
  /\ pickle.exists => C19_Closed(pickle.df)

\* A run resumed from a checkpoint after an interruption has returned and
\* saved; the table holds a sentinel label and both classifier labels.
C19_Witness ==
  /\ pc = "returned"
  /\ LabelCol(stage) \in DOMAIN df
  /\ \E r \in 1..NRows(df) : isna(df[LabelCol(stage)][r])
  /\ pickle = File(result_df)
  /\ {BlankLabel(stage), PosLabel(stage), NegLabel(stage)} \subseteq
       {result_df[LabelCol(stage)][r] : r \in 1..NRows(result_df)}

\* C20: the three stages behave as one component under the renaming of the
\* keywords and labels: the label a stage gives to a response is, renamed,
\* the label every other stage gives to the renamed response. A sentiment
\* response is renamed word by word (positive to resolved / understood,
\* negative to unresolved / misunderstood, keeping the case), a resolution
\* response to an understanding response and back morpheme by morpheme.
\* (SpecKeyword: the stub's response to the one row is classifier.answers[1].)
C20_NegPrefix(s) == IF s = "resolution" THEN "un" ELSE "mis"
C20_Capital(s) == IF s = "resolution" THEN "Resolved" ELSE "Understood"

C20_FromSentiment(s2, text) ==
  LET negs(k) == Cardinality({q \in 1..k : text[q] = "negative"})
      piece(p) == CHOOSE k \in 1..Len(text) : k + negs(k - 1) <= p /\ p <= k + negs(k)
  IN [p \in 1..(Len(text) + negs(Len(text))) |->
        LET k == piece(p)
        IN CASE text[k] = "positive" -> PosLabel(s2)
             [] text[k] = "Positive" -> C20_Capital(s2)
             [] text[k] = "negative" ->
                  IF p = k + negs(k - 1) THEN C20_NegPrefix(s2) ELSE PosLabel(s2)
             [] OTHER -> text[k]]

C20_Morpheme(s1, s2, m) ==
  IF m = PosLabel(s1) THEN PosLabel(s2)
  ELSE IF m = C20_NegPrefix(s1) THEN C20_NegPrefix(s2)
  ELSE IF m = C20_Capital(s1) THEN C20_Capital(s2)
  ELSE m

C20_Rename(s1, s2, text) ==
  IF s1 = "sentiment" THEN C20_FromSentiment(s2, text)
  ELSE [k \in 1..Len(text) |-> C20_Morpheme(s1, s2, text[k])]

C20_RenameLabel(s1, s2, l) ==
  IF l = PosLabel(s1) THEN PosLabel(s2)
  ELSE IF l = NegLabel(s1) THEN NegLabel(s2)
  ELSE l

C20_OneComponent ==
  (pc = "while" /\ attempts > 0 /\ classifier.kind = "stub") =>
     \A s2 \in (Stages \ {stage, "sentiment"}) :
        C20_RenameLabel(stage, s2, label) =
          Analyze(s2, [ok |-> TRUE, text |-> C20_Rename(stage, s2, classifier.answers[idx])])

\* The rows labelled in this run whose label is not in the checkpoint file.
Unsaved ==
  {r \in NullOnEntry :
     /\ ~isna(result_df[LabelCol(stage)][r])
     /\ ~(/\ pickle.exists
          /\ LabelCol(stage) \in DOMAIN pickle.df
          /\ pickle.df[LabelCol(stage)][r] = result_df[LabelCol(stage)][r])}

\* C21: at every point of a run of an enrichment stage (the process may be
\* terminated at any of them), the labels assigned in this run that are not
\* in the checkpoint file belong to at most SaveEvery batches, that is, to
\* at most SaveEvery * batch_size rows.
C21_LossBound ==
  pc \in {"row", "while", "endbatch", "final"} =>
     Cardinality(Unsaved) <= SaveEvery * batch_size

\* C22: a checkpoint write that fails (after a batch, or the final one) does
\* not abort the stage and loses no label of the working table: the step
\* that holds the write keeps every label, goes on to the next batch (or
\* returns), and whenever it changes the checkpoint file the file holds the
\* whole working table, with every label assigned so far; a run in which a
\* write failed never ends aborted, and the table it returns has a label on
\* every row.
C22_WriteStep ==
  (pc \in {"endbatch", "final"} /\ pc' # "idle") =>
     /\ \A r \in 1..NRows(result_df) :
          result_df'[LabelCol(stage)][r] = result_df[LabelCol(stage)][r]
     /\ pc' = (IF pc = "final" THEN "returned"
               ELSE IF i + batch_size < total_to_process THEN "row" ELSE "final")
     /\ pickle' # pickle => pickle' = File(result_df')

C22_AfterFailure ==
  write_failed =>
     /\ pc \in {"row", "while", "endbatch", "final", "returned"}
     /\ pc = "returned" => AllLabelled(result_df)

C22_FailedWriteIsHarmless == []C22_AfterFailure /\ [][C22_WriteStep]_vars

\* A run whose intermediate write failed has labelled the remaining rows and
\* returned, and its final write has put the whole table, with the labels
\* made before the failed write, into the checkpoint file.
C22_Witness ==
  /\ pc = "returned"
  /\ write_failed
  /\ LabelCol(stage) \notin DOMAIN df
  /\ called # {}
  /\ AllLabelled(result_df)
  /\ pickle = File(result_df)

\* The sections of the report that name a column, and its correlation lines
\* for a pair of columns.
C23_Mentions(c) ==
  {k \in 1..Len(stats_out) :
     IF stats_out[k].kind = "correlation"
       THEN c \in {stats_out[k].col1, stats_out[k].col2}
       ELSE stats_out[k].col = c}

C23_Lines(c1, c2) ==
  {k \in 1..Len(stats_out) :
     /\ stats_out[k].kind = "correlation"
     /\ {stats_out[k].col1, stats_out[k].col2} = {c1, c2}}

C23_NumericCols ==
  {"sentiment_numeric", "rating_numeric", "support_case_numeric",
   "aws_platform_numeric"}

C23_AllNull(c) == \A r \in 1..NRows(stats_df) : stats_df[c][r] \in {None, NaN}

C23_Undefined == [sign |-> 0, square |-> [num |-> 0, den |-> 0]]

\* C23: display_statistics never raises; for a numeric column that is not
\* in the table no distribution and no correlation is reported; for every
\* unordered pair of numeric columns that are in the table exactly one
\* correlation is reported; and when a column of the pair holds only nulls
\* the correlation reported is the undefined value (NaN).
C23_StatisticsTotal ==
  /\ stats_pc # "raised"
  /\ stats_pc = "done" =>
       /\ \A c \in C23_NumericCols \ DOMAIN stats_df : C23_Mentions(c) = {}
       /\ \A c \in C23_NumericCols \cap DOMAIN stats_df :
            Cardinality({k \in C23_Mentions(c) : stats_out[k].kind = "distribution"}) = 1
       /\ \A c1, c2 \in C23_NumericCols \cap DOMAIN stats_df :
            c1 # c2 =>
               /\ Cardinality(C23_Lines(c1, c2)) = 1
               /\ (C23_AllNull(c1) \/ C23_AllNull(c2)) =>
                    \A k \in C23_Lines(c1, c2) : stats_out[k].value = C23_Undefined
       /\ Cardinality({k \in 1..Len(stats_out) : stats_out[k].kind = "correlation"}) =
            (Cardinality(C23_NumericCols \cap DOMAIN stats_df)
               * (Cardinality(C23_NumericCols \cap DOMAIN stats_df) - 1)) \div 2

\* The statistics of a two-row table were printed: rating_numeric is not
\* there, sentiment_numeric holds only nulls, and the correlation of the two
\* other columns is defined.
C23_Witness ==
  /\ stats_pc = "done"
  /\ NRows(stats_df) = 2
  /\ C23_NumericCols \cap DOMAIN stats_df =
       {"sentiment_numeric", "support_case_numeric", "aws_platform_numeric"}
  /\ C23_AllNull("sentiment_numeric")
  /\ \E k \in C23_Lines("support_case_numeric", "aws_platform_numeric") :
       stats_out[k].value.sign # 0

\* The "~id" values of the records of a file of the export directory.
C24_Ids(f) == {direct_dir[f][k]["~id"] : k \in 1..Len(direct_dir[f])}

\* Every record of edge file f has its "~from" among the ids of the vertex
\* file from and its "~to" among the ids of rating_vertices.csv.
C24_Endpoints(f, from) ==
  f \in DOMAIN direct_dir =>
     /\ {from, "rating_vertices.csv"} \subseteq DOMAIN direct_dir
     /\ \A k \in 1..Len(direct_dir[f]) :
          /\ direct_dir[f][k]["~from"] \in C24_Ids(from)
          /\ direct_dir[f][k]["~to"] \in C24_Ids("rating_vertices.csv")

C24_StatusesNotNull ==
  \A r \in 1..NRows(export_df) :
     /\ ~isna(export_df["resolution_status"][r])
     /\ ~isna(export_df["understanding_status"][r])

\* C24: in what the direct exporter has written for a table whose rows all
\* have a resolution_status and an understanding_status, every AFFECTS edge
\* goes from a vertex of resolution_vertices.csv, every INFLUENCES edge from
\* a vertex of understanding_vertices.csv, every HAS_RATING edge from a
\* vertex of ticket_vertices.csv, and every edge goes to a vertex of
\* rating_vertices.csv.
C24_EdgesReferToVertices ==
  C24_StatusesNotNull =>
     /\ C24_Endpoints("resolution_rating_edges.csv", "resolution_vertices.csv")
     /\ C24_Endpoints("understanding_rating_edges.csv", "understanding_vertices.csv")
     /\ C24_Endpoints("ticket_rating_edges.csv", "ticket_vertices.csv")

\* A table of two rows was exported whose resolution statuses differ (one
\* of them "unknown") and whose understanding statuses agree.
C24_Witness ==
  /\ direct_pc = "done"
  /\ NRows(export_df) = 2
  /\ export_df["resolution_status"][1] = "unknown"
  /\ export_df["resolution_status"][2] = "resolved"
  /\ Len(direct_dir["resolution_vertices.csv"]) = 2
  /\ Len(direct_dir["understanding_vertices.csv"]) = 1
  /\ Len(direct_dir["resolution_rating_edges.csv"]) = 2

\* The numeric columns the bulk exporter reads, by the property they fill.
C25_Column(k) ==
  CASE k = "sentiment" -> "sentiment_numeric"
    [] k = "rating" -> "rating_numeric"
    [] k = "resolution" -> "resolution_numeric"
    [] k = "understanding" -> "understanding_numeric"
    [] k = "support_case" -> "support_case_numeric"
    [] k = "aws_platform" -> "aws_platform_numeric"

C25_Props ==
  {"sentiment", "rating", "resolution", "understanding", "support_case",
   "aws_platform"}

\* A numeric column that is in the table has a null cell.
C25_NullCell ==
  \E k \in C25_Props, r \in 1..NRows(export_df) :
     /\ C25_Column(k) \in DOMAIN export_df
     /\ export_df[C25_Column(k)][r] \in {None, NaN}

C25_Value(k, r) ==
  IF C25_Column(k) \in DOMAIN export_df THEN export_df[C25_Column(k)][r] ELSE "0"

\* C25: a run of the bulk exporter on a table in which a numeric column
\* that is present has a null cell ends with an error and writes no file
\* (the files are as they were before the run); on any other table it
\* completes, and every numeric property of the vertex of row r, and the
\* value of its two has_factor edges, is the row's cell of the column when
\* the column is there and 0 only when the column is not.
C25_NullRaisesAbsentIsZero ==
  bulk_runs > 0 =>
     IF C25_NullCell
       THEN /\ bulk_pc = "raised"
            /\ bulk_dir = bulk_prev
       ELSE /\ bulk_pc = "done"
            /\ \A r \in 1..NRows(export_df) :
                 /\ \A k \in C25_Props :
                      bulk_dir["neptune_vertices.csv"][r][k] = C25_Value(k, r)
                 /\ bulk_dir["neptune_edges.csv"][2 * r - 1]["value"] =
                      C25_Value("resolution", r)
                 /\ bulk_dir["neptune_edges.csv"][2 * r]["value"] =
                      C25_Value("rating", r)

\* The first run on a table whose sentiment_numeric is null on a row
\* (neutral), with every resolution known and no rating_numeric column,
\* has ended with the error and left no file.
C25_Witness ==
  /\ bulk_runs = 1
  /\ bulk_pc = "raised"
  /\ bulk_dir = <<>>
  /\ "sentiment_numeric" \in DOMAIN export_df
  /\ "rating_numeric" \notin DOMAIN export_df
  /\ \E r \in 1..NRows(export_df) : export_df["sentiment_numeric"][r] = NaN
  /\ \A r \in 1..NRows(export_df) : export_df["resolution_numeric"][r] # NaN

\* C26: when a run of the understanding stage that had at least one row to
\* process returns, understanding_numeric is on every row 1 for the status
\* understood and 0 for misunderstood and for unknown, never null; when
\* such a run of the resolution stage returns, resolution_numeric is 1 for
\* resolved, 0 for unresolved and null exactly for unknown.
C26_NumericAfterRun ==
  (pc = "returned" /\ Len(todo) > 0) =>
     /\ stage = "understanding" =>
          /\ "understanding_numeric" \in DOMAIN result_df
          /\ \A r \in 1..NRows(result_df) :
               LET v == result_df["understanding_status"][r]
                   n == result_df["understanding_numeric"][r]
               IN /\ n \in {"0", "1"}
                  /\ n = "1" <=> v = "understood"
                  /\ v \in {"misunderstood", "unknown"} => n = "0"
     /\ stage = "resolution" =>
          /\ "resolution_numeric" \in DOMAIN result_df
          /\ \A r \in 1..NRows(result_df) :
               LET v == result_df["resolution_status"][r]
                   n == result_df["resolution_numeric"][r]
               IN /\ n \in {None, NaN} <=> v = "unknown"
                  /\ v = "resolved" => n = "1"
                  /\ v = "unresolved" => n = "0"

\* A run of the resolution or understanding stage that processed rows has
\* returned a table with an unknown row and a row of each classifier label.
C26_Witness ==
  /\ pc = "returned"
  /\ Len(todo) > 0
  /\ HasNumericCol(stage)
  /\ {"unknown", PosLabel(stage), NegLabel(stage)} \subseteq
       {result_df[LabelCol(stage)][r] : r \in 1..NRows(result_df)}

\* The columns of a table that the predecessor gave it: every column but
\* the stage's label column and numeric column.
C27_Upstream(t) == [c \in DOMAIN t \ {LabelCol(stage), NumericCol(stage)} |-> t[c]]

\* C27: a run of a stage script that finds the stage's checkpoint file
\* works on the checkpoint's table and not on the table of the predecessor;
\* and once the checkpoint file is written, its rows and the values that
\* came from upstream stay what they were when it was first written, in the
\* file (which is what the stages after this one load) and in every table
\* the stage returns, whatever the predecessor's table becomes.
C27_Step ==
  pickle.exists =>
     /\ pickle'.exists
     /\ C27_Upstream(pickle'.df) = C27_Upstream(pickle.df)
     /\ Main =>
          /\ df' = pickle.df
          /\ C27_Upstream(result_df') = C27_Upstream(pickle.df)

C27_Returned ==
  (pickle.exists /\ pc \in {"row", "while", "endbatch", "final", "returned"}) =>
     C27_Upstream(result_df) = C27_Upstream(pickle.df)

C27_CheckpointShadowsUpstream == []C27_Returned /\ [][C27_Step]_vars

\* The stage was run again after its predecessor's table got another row
\* and an edited comment: it has returned the checkpoint's table without a
\* classifier call.
C27_Witness ==
  /\ pc = "returned"
  /\ pickle = File(result_df)
  /\ df = pickle.df
  /\ ncalls = 0
  /\ NRows(source) > NRows(result_df)
  /\ \E r \in 1..NRows(result_df) :
       /\ result_df[TextCol][r] = "text"
       /\ source[TextCol][r] = "edited"
       /\ result_df[LabelCol(stage)][r] \in {PosLabel(stage), NegLabel(stage)}

\* The CSV files of the data directory.
C28_CsvFiles == {f \in data_dir : f[2] = ".csv"}

\* C28: the bulk-load request is sent only in a run that found at least one
\* CSV file and in which every upload succeeded; a run on a directory
\* without a CSV file uploads nothing and sends no request; a run in which
\* an upload fails ends there: the files after the failed one are not
\* uploaded and no request is sent.
C28_State ==
  /\ graph_calls # <<>> =>
       /\ C28_CsvFiles # {}
       /\ Len(uploaded) = Cardinality(C28_CsvFiles)
       /\ {uploaded[k].file_path : k \in 1..Len(uploaded)} =
            {<<DataDirName, "/", f[1], f[2]>> : f \in C28_CsvFiles}
       /\ upload_pc = "done"
  /\ (upload_pc # "idle" /\ C28_CsvFiles = {}) =>
       /\ upload_pc = "done"
       /\ uploaded = <<>>
       /\ graph_calls = <<>>
       /\ status = "none"
  /\ upload_pc = "raised" =>
       /\ Len(uploaded) < Cardinality(C28_CsvFiles)
       /\ graph_calls = <<>>
       /\ status = "none"

C28_Stops ==
  upload_pc = "raised" => (uploaded' = <<>> /\ graph_calls' = <<>>)

C28_LoadOnlyAfterAllUploads == []C28_State /\ [][C28_Stops]_vars

\* A run found two or more CSV files, uploaded the first, and the upload
\* of the next one failed.
C28_Witness ==
  /\ upload_pc = "raised"
  /\ Len(uploaded) = 1
  /\ Len(csv_files) >= 2
  /\ graph_calls = <<>>

\* C29: an invocation of the agent's handler returns a response (it does not
\* raise) that carries the event's actionGroup and apiPath; for an event
\* with an actionGroup, an apiPath and an httpMethod the status code is 200,
\* whatever the API path (one of the seven known ones, with the event's
\* parameters, or an unknown one) and whether or not the graph query
\* failed; the status code is 500 only for an event that lacks one of the
\* three keys.
C29_WellFormed == {"actionGroup", "apiPath", "httpMethod"} \subseteq DOMAIN agent_event

C29_HandlerTotal ==
  /\ agent_pc # "raised"
  /\ agent_pc = "returned" =>
       /\ "actionGroup" \in DOMAIN agent_event =>
            agent_response.actionGroup = agent_event["actionGroup"]
       /\ "apiPath" \in DOMAIN agent_event =>
            agent_response.apiPath = agent_event["apiPath"]
       /\ agent_response.httpStatusCode \in {200, 500}
       /\ C29_WellFormed => agent_response.httpStatusCode = 200

\* C30: every invocation of the provider handler sends exactly one completion
\* response: SUCCESS when no step raised, FAILED when a step raised. An
\* Update, and a Delete without a physical id, make no service call. On a
\* successful Create of an agent or an action group the physical id of the
\* response is the id of what was created.
C30_RequestType == EventGet(cfn_event, "RequestType", None)
C30_PhysicalId == EventGet(cfn_event, "PhysicalResourceId", None)
C30_Properties == EventGet(cfn_event, "ResourceProperties", <<>>)

\* The id key the handler reads from the response of a create call.
C30_IdKey(name) == IF name = "create_agent" THEN "agentId" ELSE "actionGroupId"
C30_Creates == {"create_agent", "create_agent_action_group"}

C30_ARaised ==
  \/ "RequestType" \notin DOMAIN cfn_event
  \/ "ResourceProperties" \notin DOMAIN cfn_event
  \/ /\ C30_RequestType = "Create"
     /\ EventGet(C30_Properties, "ResourceType", None) = "Agent"
     /\ "IdleSessionTTLInSeconds" \in DOMAIN C30_Properties
     /\ C30_Properties["IdleSessionTTLInSeconds"] \notin DOMAIN ParseInt
  \/ \E k \in DOMAIN cfn_calls :
       \/ cfn_calls[k].raised
       \/ /\ cfn_calls[k].name \in C30_Creates
          /\ C30_IdKey(cfn_calls[k].name) \notin DOMAIN cfn_calls[k].response

C30_OneCompletionResponse ==
  /\ cfn_pc # "raised"
  /\ cfn_pc = "returned" =>
       /\ Len(cfn_sent) = 1
       /\ cfn_sent[1].Status = (IF C30_ARaised THEN "FAILED" ELSE "SUCCESS")
       /\ C30_RequestType = "Update" => cfn_calls = <<>>
       /\ (C30_RequestType = "Delete" /\ ~Truthy(C30_PhysicalId)) => cfn_calls = <<>>
       /\ Len(cfn_calls) <= 1
       /\ (/\ C30_RequestType = "Create"
           /\ cfn_sent[1].Status = "SUCCESS"
           /\ cfn_calls # <<>>) =>
            /\ cfn_calls[1].name \in C30_Creates
            /\ cfn_sent[1].PhysicalResourceId =
                 cfn_calls[1].response[C30_IdKey(cfn_calls[1].name)]

\* A Create has succeeded: the agent was created with the default session
\* time-to-live, and the one response sent is SUCCESS with the new agent's id.
C30_Witness ==
  /\ cfn_pc = "returned"
  /\ C30_RequestType = "Create"
  /\ Len(cfn_calls) = 1
  /\ cfn_calls[1].name = "create_agent"
  /\ cfn_calls[1].args.idleSessionTTLInSeconds = DefaultTTL
  /\ ~cfn_calls[1].raised
  /\ Len(cfn_sent) = 1
  /\ cfn_sent[1].Status = "SUCCESS"
  /\ cfn_sent[1].PhysicalResourceId = "id-1"
  /\ cfn_sent[1].Data = ("AgentId" :> "id-1")

====
